---- MODULE Spec2Model ----
(***************************************************************************)
(* Model of src/app.py (san007-colab/text_compare): the sentence aligner   *)
(* match_sentences_full and the positional token differ                    *)
(* highlight_differences, with the library calls they make (re.findall,    *)
(* str.lower, float, difflib.SequenceMatcher.ratio).                       *)
(*                                                                         *)
(* A Python str is modelled by the sequence of the code points of its      *)
(* characters (ord of each), so that every character of a str has a        *)
(* value; Text writes such a sequence as a literal.  Indices are Python's  *)
(* (0-based) wherever the code stores an index (best_index,                *)
(* used_html_indexes, i).  The character tables are those of the           *)
(* interpreter that runs the code (CPython 3.11, Unicode 14.0.0).          *)
(***************************************************************************)
EXTENDS Integers, Sequences, FiniteSets, TLC

(***************************************************************************)
(* Strings                                                                 *)
(***************************************************************************)

\* The characters of code points 32 to 95, and those of 97 to 126, in order.
UpToUnderscore == " !\"#$%&'()*+,-./0123456789:;<=>?@ABCDEFGHIJKLMNOPQRSTUVWXYZ[\\]^_"
LowerLetterOn == "abcdefghijklmnopqrstuvwxyz{|}~"

\* The index (from 1) of character ch in the string s, 0 when it is not there.
IndexIn(ch, s) ==
    IF \E k \in 1..Len(s) : SubSeq(s, k, k) = ch
    THEN CHOOSE k \in 1..Len(s) : SubSeq(s, k, k) = ch
    ELSE 0

\* ord(ch) for one of these characters.
ord(ch) ==
    IF IndexIn(ch, UpToUnderscore) > 0 THEN 31 + IndexIn(ch, UpToUnderscore)
    ELSE 96 + IndexIn(ch, LowerLetterOn)

\* The str a literal of the code denotes.
Text(s) == [k \in 1..Len(s) |-> ord(SubSeq(s, k, k))]

\* s[i] of Python, i 0-based; -1 (no character) when i is out of range.
Char(s, i) == IF i >= 0 /\ i < Len(s) THEN s[i + 1] ELSE -1

\* s[lo:hi] of Python.
Slice(s, lo, hi) == SubSeq(s, lo + 1, hi)

Range(f) == {f[k] : k \in DOMAIN f}

\* The tables of characters below are sequences of ranges <<first, last, ...>>
\* in increasing order, no two of them overlapping.

\* The index of the last entry among table[lo..hi] that starts at or before
\* c, lo - 1 when there is none.
RECURSIVE LastAtMost(_, _, _, _)
LastAtMost(c, table, lo, hi) ==
    IF lo > hi THEN hi
    ELSE IF table[(lo + hi) \div 2][1] <= c
    THEN LastAtMost(c, table, (lo + hi) \div 2 + 1, hi)
    ELSE LastAtMost(c, table, lo, (lo + hi) \div 2 - 1)

\* The index of the one range of a table that can hold c, 0 when every range
\* starts after c.
EntryFor(c, table) == LastAtMost(c, table, 1, Len(table))

\* c lies in one of the ranges of a table.
InRanges(c, table) == EntryFor(c, table) > 0 /\ c <= table[EntryFor(c, table)][2]

\* \w of a str pattern: the characters with str.isalnum(), and '_'.
WordRanges ==
    << <<48, 57>>, <<65, 90>>, <<95, 95>>, <<97, 122>>, <<170, 170>>, <<178, 179>>,
      <<181, 181>>, <<185, 186>>, <<188, 190>>, <<192, 214>>, <<216, 246>>, <<248, 705>>,
      <<710, 721>>, <<736, 740>>, <<748, 748>>, <<750, 750>>, <<880, 884>>, <<886, 887>>,
      <<890, 893>>, <<895, 895>>, <<902, 902>>, <<904, 906>>, <<908, 908>>, <<910, 929>>,
      <<931, 1013>>, <<1015, 1153>>, <<1162, 1327>>, <<1329, 1366>>, <<1369, 1369>>, <<1376, 1416>>,
      <<1488, 1514>>, <<1519, 1522>>, <<1568, 1610>>, <<1632, 1641>>, <<1646, 1647>>, <<1649, 1747>>,
      <<1749, 1749>>, <<1765, 1766>>, <<1774, 1788>>, <<1791, 1791>>, <<1808, 1808>>, <<1810, 1839>>,
      <<1869, 1957>>, <<1969, 1969>>, <<1984, 2026>>, <<2036, 2037>>, <<2042, 2042>>, <<2048, 2069>>,
      <<2074, 2074>>, <<2084, 2084>>, <<2088, 2088>>, <<2112, 2136>>, <<2144, 2154>>, <<2160, 2183>>,
      <<2185, 2190>>, <<2208, 2249>>, <<2308, 2361>>, <<2365, 2365>>, <<2384, 2384>>, <<2392, 2401>>,
      <<2406, 2415>>, <<2417, 2432>>, <<2437, 2444>>, <<2447, 2448>>, <<2451, 2472>>, <<2474, 2480>>,
      <<2482, 2482>>, <<2486, 2489>>, <<2493, 2493>>, <<2510, 2510>>, <<2524, 2525>>, <<2527, 2529>>,
      <<2534, 2545>>, <<2548, 2553>>, <<2556, 2556>>, <<2565, 2570>>, <<2575, 2576>>, <<2579, 2600>>,
      <<2602, 2608>>, <<2610, 2611>>, <<2613, 2614>>, <<2616, 2617>>, <<2649, 2652>>, <<2654, 2654>>,
      <<2662, 2671>>, <<2674, 2676>>, <<2693, 2701>>, <<2703, 2705>>, <<2707, 2728>>, <<2730, 2736>>,
      <<2738, 2739>>, <<2741, 2745>>, <<2749, 2749>>, <<2768, 2768>>, <<2784, 2785>>, <<2790, 2799>>,
      <<2809, 2809>>, <<2821, 2828>>, <<2831, 2832>>, <<2835, 2856>>, <<2858, 2864>>, <<2866, 2867>>,
      <<2869, 2873>>, <<2877, 2877>>, <<2908, 2909>>, <<2911, 2913>>, <<2918, 2927>>, <<2929, 2935>>,
      <<2947, 2947>>, <<2949, 2954>>, <<2958, 2960>>, <<2962, 2965>>, <<2969, 2970>>, <<2972, 2972>>,
      <<2974, 2975>>, <<2979, 2980>>, <<2984, 2986>>, <<2990, 3001>>, <<3024, 3024>>, <<3046, 3058>>,
      <<3077, 3084>>, <<3086, 3088>>, <<3090, 3112>>, <<3114, 3129>>, <<3133, 3133>>, <<3160, 3162>>,
      <<3165, 3165>>, <<3168, 3169>>, <<3174, 3183>>, <<3192, 3198>>, <<3200, 3200>>, <<3205, 3212>>,
      <<3214, 3216>>, <<3218, 3240>>, <<3242, 3251>>, <<3253, 3257>>, <<3261, 3261>>, <<3293, 3294>>,
      <<3296, 3297>>, <<3302, 3311>>, <<3313, 3314>>, <<3332, 3340>>, <<3342, 3344>>, <<3346, 3386>>,
      <<3389, 3389>>, <<3406, 3406>>, <<3412, 3414>>, <<3416, 3425>>, <<3430, 3448>>, <<3450, 3455>>,
      <<3461, 3478>>, <<3482, 3505>>, <<3507, 3515>>, <<3517, 3517>>, <<3520, 3526>>, <<3558, 3567>>,
      <<3585, 3632>>, <<3634, 3635>>, <<3648, 3654>>, <<3664, 3673>>, <<3713, 3714>>, <<3716, 3716>>,
      <<3718, 3722>>, <<3724, 3747>>, <<3749, 3749>>, <<3751, 3760>>, <<3762, 3763>>, <<3773, 3773>>,
      <<3776, 3780>>, <<3782, 3782>>, <<3792, 3801>>, <<3804, 3807>>, <<3840, 3840>>, <<3872, 3891>>,
      <<3904, 3911>>, <<3913, 3948>>, <<3976, 3980>>, <<4096, 4138>>, <<4159, 4169>>, <<4176, 4181>>,
      <<4186, 4189>>, <<4193, 4193>>, <<4197, 4198>>, <<4206, 4208>>, <<4213, 4225>>, <<4238, 4238>>,
      <<4240, 4249>>, <<4256, 4293>>, <<4295, 4295>>, <<4301, 4301>>, <<4304, 4346>>, <<4348, 4680>>,
      <<4682, 4685>>, <<4688, 4694>>, <<4696, 4696>>, <<4698, 4701>>, <<4704, 4744>>, <<4746, 4749>>,
      <<4752, 4784>>, <<4786, 4789>>, <<4792, 4798>>, <<4800, 4800>>, <<4802, 4805>>, <<4808, 4822>>,
      <<4824, 4880>>, <<4882, 4885>>, <<4888, 4954>>, <<4969, 4988>>, <<4992, 5007>>, <<5024, 5109>>,
      <<5112, 5117>>, <<5121, 5740>>, <<5743, 5759>>, <<5761, 5786>>, <<5792, 5866>>, <<5870, 5880>>,
      <<5888, 5905>>, <<5919, 5937>>, <<5952, 5969>>, <<5984, 5996>>, <<5998, 6000>>, <<6016, 6067>>,
      <<6103, 6103>>, <<6108, 6108>>, <<6112, 6121>>, <<6128, 6137>>, <<6160, 6169>>, <<6176, 6264>>,
      <<6272, 6276>>, <<6279, 6312>>, <<6314, 6314>>, <<6320, 6389>>, <<6400, 6430>>, <<6470, 6509>>,
      <<6512, 6516>>, <<6528, 6571>>, <<6576, 6601>>, <<6608, 6618>>, <<6656, 6678>>, <<6688, 6740>>,
      <<6784, 6793>>, <<6800, 6809>>, <<6823, 6823>>, <<6917, 6963>>, <<6981, 6988>>, <<6992, 7001>>,
      <<7043, 7072>>, <<7086, 7141>>, <<7168, 7203>>, <<7232, 7241>>, <<7245, 7293>>, <<7296, 7304>>,
      <<7312, 7354>>, <<7357, 7359>>, <<7401, 7404>>, <<7406, 7411>>, <<7413, 7414>>, <<7418, 7418>>,
      <<7424, 7615>>, <<7680, 7957>>, <<7960, 7965>>, <<7968, 8005>>, <<8008, 8013>>, <<8016, 8023>>,
      <<8025, 8025>>, <<8027, 8027>>, <<8029, 8029>>, <<8031, 8061>>, <<8064, 8116>>, <<8118, 8124>>,
      <<8126, 8126>>, <<8130, 8132>>, <<8134, 8140>>, <<8144, 8147>>, <<8150, 8155>>, <<8160, 8172>>,
      <<8178, 8180>>, <<8182, 8188>>, <<8304, 8305>>, <<8308, 8313>>, <<8319, 8329>>, <<8336, 8348>>,
      <<8450, 8450>>, <<8455, 8455>>, <<8458, 8467>>, <<8469, 8469>>, <<8473, 8477>>, <<8484, 8484>>,
      <<8486, 8486>>, <<8488, 8488>>, <<8490, 8493>>, <<8495, 8505>>, <<8508, 8511>>, <<8517, 8521>>,
      <<8526, 8526>>, <<8528, 8585>>, <<9312, 9371>>, <<9450, 9471>>, <<10102, 10131>>, <<11264, 11492>>,
      <<11499, 11502>>, <<11506, 11507>>, <<11517, 11517>>, <<11520, 11557>>, <<11559, 11559>>, <<11565, 11565>>,
      <<11568, 11623>>, <<11631, 11631>>, <<11648, 11670>>, <<11680, 11686>>, <<11688, 11694>>, <<11696, 11702>>,
      <<11704, 11710>>, <<11712, 11718>>, <<11720, 11726>>, <<11728, 11734>>, <<11736, 11742>>, <<11823, 11823>>,
      <<12293, 12295>>, <<12321, 12329>>, <<12337, 12341>>, <<12344, 12348>>, <<12353, 12438>>, <<12445, 12447>>,
      <<12449, 12538>>, <<12540, 12543>>, <<12549, 12591>>, <<12593, 12686>>, <<12690, 12693>>, <<12704, 12735>>,
      <<12784, 12799>>, <<12832, 12841>>, <<12872, 12879>>, <<12881, 12895>>, <<12928, 12937>>, <<12977, 12991>>,
      <<13312, 19903>>, <<19968, 42124>>, <<42192, 42237>>, <<42240, 42508>>, <<42512, 42539>>, <<42560, 42606>>,
      <<42623, 42653>>, <<42656, 42735>>, <<42775, 42783>>, <<42786, 42888>>, <<42891, 42954>>, <<42960, 42961>>,
      <<42963, 42963>>, <<42965, 42969>>, <<42994, 43009>>, <<43011, 43013>>, <<43015, 43018>>, <<43020, 43042>>,
      <<43056, 43061>>, <<43072, 43123>>, <<43138, 43187>>, <<43216, 43225>>, <<43250, 43255>>, <<43259, 43259>>,
      <<43261, 43262>>, <<43264, 43301>>, <<43312, 43334>>, <<43360, 43388>>, <<43396, 43442>>, <<43471, 43481>>,
      <<43488, 43492>>, <<43494, 43518>>, <<43520, 43560>>, <<43584, 43586>>, <<43588, 43595>>, <<43600, 43609>>,
      <<43616, 43638>>, <<43642, 43642>>, <<43646, 43695>>, <<43697, 43697>>, <<43701, 43702>>, <<43705, 43709>>,
      <<43712, 43712>>, <<43714, 43714>>, <<43739, 43741>>, <<43744, 43754>>, <<43762, 43764>>, <<43777, 43782>>,
      <<43785, 43790>>, <<43793, 43798>>, <<43808, 43814>>, <<43816, 43822>>, <<43824, 43866>>, <<43868, 43881>>,
      <<43888, 44002>>, <<44016, 44025>>, <<44032, 55203>>, <<55216, 55238>>, <<55243, 55291>>, <<63744, 64109>>,
      <<64112, 64217>>, <<64256, 64262>>, <<64275, 64279>>, <<64285, 64285>>, <<64287, 64296>>, <<64298, 64310>>,
      <<64312, 64316>>, <<64318, 64318>>, <<64320, 64321>>, <<64323, 64324>>, <<64326, 64433>>, <<64467, 64829>>,
      <<64848, 64911>>, <<64914, 64967>>, <<65008, 65019>>, <<65136, 65140>>, <<65142, 65276>>, <<65296, 65305>>,
      <<65313, 65338>>, <<65345, 65370>>, <<65382, 65470>>, <<65474, 65479>>, <<65482, 65487>>, <<65490, 65495>>,
      <<65498, 65500>>, <<65536, 65547>>, <<65549, 65574>>, <<65576, 65594>>, <<65596, 65597>>, <<65599, 65613>>,
      <<65616, 65629>>, <<65664, 65786>>, <<65799, 65843>>, <<65856, 65912>>, <<65930, 65931>>, <<66176, 66204>>,
      <<66208, 66256>>, <<66273, 66299>>, <<66304, 66339>>, <<66349, 66378>>, <<66384, 66421>>, <<66432, 66461>>,
      <<66464, 66499>>, <<66504, 66511>>, <<66513, 66517>>, <<66560, 66717>>, <<66720, 66729>>, <<66736, 66771>>,
      <<66776, 66811>>, <<66816, 66855>>, <<66864, 66915>>, <<66928, 66938>>, <<66940, 66954>>, <<66956, 66962>>,
      <<66964, 66965>>, <<66967, 66977>>, <<66979, 66993>>, <<66995, 67001>>, <<67003, 67004>>, <<67072, 67382>>,
      <<67392, 67413>>, <<67424, 67431>>, <<67456, 67461>>, <<67463, 67504>>, <<67506, 67514>>, <<67584, 67589>>,
      <<67592, 67592>>, <<67594, 67637>>, <<67639, 67640>>, <<67644, 67644>>, <<67647, 67669>>, <<67672, 67702>>,
      <<67705, 67742>>, <<67751, 67759>>, <<67808, 67826>>, <<67828, 67829>>, <<67835, 67867>>, <<67872, 67897>>,
      <<67968, 68023>>, <<68028, 68047>>, <<68050, 68096>>, <<68112, 68115>>, <<68117, 68119>>, <<68121, 68149>>,
      <<68160, 68168>>, <<68192, 68222>>, <<68224, 68255>>, <<68288, 68295>>, <<68297, 68324>>, <<68331, 68335>>,
      <<68352, 68405>>, <<68416, 68437>>, <<68440, 68466>>, <<68472, 68497>>, <<68521, 68527>>, <<68608, 68680>>,
      <<68736, 68786>>, <<68800, 68850>>, <<68858, 68899>>, <<68912, 68921>>, <<69216, 69246>>, <<69248, 69289>>,
      <<69296, 69297>>, <<69376, 69415>>, <<69424, 69445>>, <<69457, 69460>>, <<69488, 69505>>, <<69552, 69579>>,
      <<69600, 69622>>, <<69635, 69687>>, <<69714, 69743>>, <<69745, 69746>>, <<69749, 69749>>, <<69763, 69807>>,
      <<69840, 69864>>, <<69872, 69881>>, <<69891, 69926>>, <<69942, 69951>>, <<69956, 69956>>, <<69959, 69959>>,
      <<69968, 70002>>, <<70006, 70006>>, <<70019, 70066>>, <<70081, 70084>>, <<70096, 70106>>, <<70108, 70108>>,
      <<70113, 70132>>, <<70144, 70161>>, <<70163, 70187>>, <<70272, 70278>>, <<70280, 70280>>, <<70282, 70285>>,
      <<70287, 70301>>, <<70303, 70312>>, <<70320, 70366>>, <<70384, 70393>>, <<70405, 70412>>, <<70415, 70416>>,
      <<70419, 70440>>, <<70442, 70448>>, <<70450, 70451>>, <<70453, 70457>>, <<70461, 70461>>, <<70480, 70480>>,
      <<70493, 70497>>, <<70656, 70708>>, <<70727, 70730>>, <<70736, 70745>>, <<70751, 70753>>, <<70784, 70831>>,
      <<70852, 70853>>, <<70855, 70855>>, <<70864, 70873>>, <<71040, 71086>>, <<71128, 71131>>, <<71168, 71215>>,
      <<71236, 71236>>, <<71248, 71257>>, <<71296, 71338>>, <<71352, 71352>>, <<71360, 71369>>, <<71424, 71450>>,
      <<71472, 71483>>, <<71488, 71494>>, <<71680, 71723>>, <<71840, 71922>>, <<71935, 71942>>, <<71945, 71945>>,
      <<71948, 71955>>, <<71957, 71958>>, <<71960, 71983>>, <<71999, 71999>>, <<72001, 72001>>, <<72016, 72025>>,
      <<72096, 72103>>, <<72106, 72144>>, <<72161, 72161>>, <<72163, 72163>>, <<72192, 72192>>, <<72203, 72242>>,
      <<72250, 72250>>, <<72272, 72272>>, <<72284, 72329>>, <<72349, 72349>>, <<72368, 72440>>, <<72704, 72712>>,
      <<72714, 72750>>, <<72768, 72768>>, <<72784, 72812>>, <<72818, 72847>>, <<72960, 72966>>, <<72968, 72969>>,
      <<72971, 73008>>, <<73030, 73030>>, <<73040, 73049>>, <<73056, 73061>>, <<73063, 73064>>, <<73066, 73097>>,
      <<73112, 73112>>, <<73120, 73129>>, <<73440, 73458>>, <<73648, 73648>>, <<73664, 73684>>, <<73728, 74649>>,
      <<74752, 74862>>, <<74880, 75075>>, <<77712, 77808>>, <<77824, 78894>>, <<82944, 83526>>, <<92160, 92728>>,
      <<92736, 92766>>, <<92768, 92777>>, <<92784, 92862>>, <<92864, 92873>>, <<92880, 92909>>, <<92928, 92975>>,
      <<92992, 92995>>, <<93008, 93017>>, <<93019, 93025>>, <<93027, 93047>>, <<93053, 93071>>, <<93760, 93846>>,
      <<93952, 94026>>, <<94032, 94032>>, <<94099, 94111>>, <<94176, 94177>>, <<94179, 94179>>, <<94208, 100343>>,
      <<100352, 101589>>, <<101632, 101640>>, <<110576, 110579>>, <<110581, 110587>>, <<110589, 110590>>, <<110592, 110882>>,
      <<110928, 110930>>, <<110948, 110951>>, <<110960, 111355>>, <<113664, 113770>>, <<113776, 113788>>, <<113792, 113800>>,
      <<113808, 113817>>, <<119520, 119539>>, <<119648, 119672>>, <<119808, 119892>>, <<119894, 119964>>, <<119966, 119967>>,
      <<119970, 119970>>, <<119973, 119974>>, <<119977, 119980>>, <<119982, 119993>>, <<119995, 119995>>, <<119997, 120003>>,
      <<120005, 120069>>, <<120071, 120074>>, <<120077, 120084>>, <<120086, 120092>>, <<120094, 120121>>, <<120123, 120126>>,
      <<120128, 120132>>, <<120134, 120134>>, <<120138, 120144>>, <<120146, 120485>>, <<120488, 120512>>, <<120514, 120538>>,
      <<120540, 120570>>, <<120572, 120596>>, <<120598, 120628>>, <<120630, 120654>>, <<120656, 120686>>, <<120688, 120712>>,
      <<120714, 120744>>, <<120746, 120770>>, <<120772, 120779>>, <<120782, 120831>>, <<122624, 122654>>, <<123136, 123180>>,
      <<123191, 123197>>, <<123200, 123209>>, <<123214, 123214>>, <<123536, 123565>>, <<123584, 123627>>, <<123632, 123641>>,
      <<124896, 124902>>, <<124904, 124907>>, <<124909, 124910>>, <<124912, 124926>>, <<124928, 125124>>, <<125127, 125135>>,
      <<125184, 125251>>, <<125259, 125259>>, <<125264, 125273>>, <<126065, 126123>>, <<126125, 126127>>, <<126129, 126132>>,
      <<126209, 126253>>, <<126255, 126269>>, <<126464, 126467>>, <<126469, 126495>>, <<126497, 126498>>, <<126500, 126500>>,
      <<126503, 126503>>, <<126505, 126514>>, <<126516, 126519>>, <<126521, 126521>>, <<126523, 126523>>, <<126530, 126530>>,
      <<126535, 126535>>, <<126537, 126537>>, <<126539, 126539>>, <<126541, 126543>>, <<126545, 126546>>, <<126548, 126548>>,
      <<126551, 126551>>, <<126553, 126553>>, <<126555, 126555>>, <<126557, 126557>>, <<126559, 126559>>, <<126561, 126562>>,
      <<126564, 126564>>, <<126567, 126570>>, <<126572, 126578>>, <<126580, 126583>>, <<126585, 126588>>, <<126590, 126590>>,
      <<126592, 126601>>, <<126603, 126619>>, <<126625, 126627>>, <<126629, 126633>>, <<126635, 126651>>, <<127232, 127244>>,
      <<130032, 130041>>, <<131072, 173791>>, <<173824, 177976>>, <<177984, 178205>>, <<178208, 183969>>, <<183984, 191456>>,
      <<194560, 195101>>, <<196608, 201546>> >>

\* \s of a str pattern: the characters with str.isspace().
SpaceRanges ==
    << <<9, 13>>, <<28, 32>>, <<133, 133>>, <<160, 160>>, <<5760, 5760>>, <<8192, 8202>>,
      <<8232, 8233>>, <<8239, 8239>>, <<8287, 8287>>, <<12288, 12288>> >>

\* The decimal digit characters: each range is the digits zero to nine of one
\* script.
DecimalRanges ==
    << <<48, 57>>, <<1632, 1641>>, <<1776, 1785>>, <<1984, 1993>>, <<2406, 2415>>, <<2534, 2543>>,
      <<2662, 2671>>, <<2790, 2799>>, <<2918, 2927>>, <<3046, 3055>>, <<3174, 3183>>, <<3302, 3311>>,
      <<3430, 3439>>, <<3558, 3567>>, <<3664, 3673>>, <<3792, 3801>>, <<3872, 3881>>, <<4160, 4169>>,
      <<4240, 4249>>, <<6112, 6121>>, <<6160, 6169>>, <<6470, 6479>>, <<6608, 6617>>, <<6784, 6793>>,
      <<6800, 6809>>, <<6992, 7001>>, <<7088, 7097>>, <<7232, 7241>>, <<7248, 7257>>, <<42528, 42537>>,
      <<43216, 43225>>, <<43264, 43273>>, <<43472, 43481>>, <<43504, 43513>>, <<43600, 43609>>, <<44016, 44025>>,
      <<65296, 65305>>, <<66720, 66729>>, <<68912, 68921>>, <<69734, 69743>>, <<69872, 69881>>, <<69942, 69951>>,
      <<70096, 70105>>, <<70384, 70393>>, <<70736, 70745>>, <<70864, 70873>>, <<71248, 71257>>, <<71360, 71369>>,
      <<71472, 71481>>, <<71904, 71913>>, <<72016, 72025>>, <<72784, 72793>>, <<73040, 73049>>, <<73120, 73129>>,
      <<92768, 92777>>, <<92864, 92873>>, <<93008, 93017>>, <<120782, 120791>>, <<120792, 120801>>, <<120802, 120811>>,
      <<120812, 120821>>, <<120822, 120831>>, <<123200, 123209>>, <<123632, 123641>>, <<125264, 125273>>, <<130032, 130041>> >>

\* str.lower() of one character, where it is another single character: each
\* <<first, last, step, delta>> maps first, first + step, ..., last to
\* themselves plus delta.
LowerRuns ==
    << <<65, 90, 1, 32>>, <<192, 214, 1, 32>>, <<216, 222, 1, 32>>, <<256, 302, 2, 1>>,
      <<306, 310, 2, 1>>, <<313, 327, 2, 1>>, <<330, 374, 2, 1>>, <<376, 376, 1, -121>>,
      <<377, 381, 2, 1>>, <<385, 385, 1, 210>>, <<386, 388, 2, 1>>, <<390, 390, 1, 206>>,
      <<391, 391, 1, 1>>, <<393, 394, 1, 205>>, <<395, 395, 1, 1>>, <<398, 398, 1, 79>>,
      <<399, 399, 1, 202>>, <<400, 400, 1, 203>>, <<401, 401, 1, 1>>, <<403, 403, 1, 205>>,
      <<404, 404, 1, 207>>, <<406, 406, 1, 211>>, <<407, 407, 1, 209>>, <<408, 408, 1, 1>>,
      <<412, 412, 1, 211>>, <<413, 413, 1, 213>>, <<415, 415, 1, 214>>, <<416, 420, 2, 1>>,
      <<422, 422, 1, 218>>, <<423, 423, 1, 1>>, <<425, 425, 1, 218>>, <<428, 428, 1, 1>>,
      <<430, 430, 1, 218>>, <<431, 431, 1, 1>>, <<433, 434, 1, 217>>, <<435, 437, 2, 1>>,
      <<439, 439, 1, 219>>, <<440, 440, 1, 1>>, <<444, 444, 1, 1>>, <<452, 452, 1, 2>>,
      <<453, 453, 1, 1>>, <<455, 455, 1, 2>>, <<456, 456, 1, 1>>, <<458, 458, 1, 2>>,
      <<459, 475, 2, 1>>, <<478, 494, 2, 1>>, <<497, 497, 1, 2>>, <<498, 500, 2, 1>>,
      <<502, 502, 1, -97>>, <<503, 503, 1, -56>>, <<504, 542, 2, 1>>, <<544, 544, 1, -130>>,
      <<546, 562, 2, 1>>, <<570, 570, 1, 10795>>, <<571, 571, 1, 1>>, <<573, 573, 1, -163>>,
      <<574, 574, 1, 10792>>, <<577, 577, 1, 1>>, <<579, 579, 1, -195>>, <<580, 580, 1, 69>>,
      <<581, 581, 1, 71>>, <<582, 590, 2, 1>>, <<880, 882, 2, 1>>, <<886, 886, 1, 1>>,
      <<895, 895, 1, 116>>, <<902, 902, 1, 38>>, <<904, 906, 1, 37>>, <<908, 908, 1, 64>>,
      <<910, 911, 1, 63>>, <<913, 929, 1, 32>>, <<932, 939, 1, 32>>, <<975, 975, 1, 8>>,
      <<984, 1006, 2, 1>>, <<1012, 1012, 1, -60>>, <<1015, 1015, 1, 1>>, <<1017, 1017, 1, -7>>,
      <<1018, 1018, 1, 1>>, <<1021, 1023, 1, -130>>, <<1024, 1039, 1, 80>>, <<1040, 1071, 1, 32>>,
      <<1120, 1152, 2, 1>>, <<1162, 1214, 2, 1>>, <<1216, 1216, 1, 15>>, <<1217, 1229, 2, 1>>,
      <<1232, 1326, 2, 1>>, <<1329, 1366, 1, 48>>, <<4256, 4293, 1, 7264>>, <<4295, 4295, 1, 7264>>,
      <<4301, 4301, 1, 7264>>, <<5024, 5103, 1, 38864>>, <<5104, 5109, 1, 8>>, <<7312, 7354, 1, -3008>>,
      <<7357, 7359, 1, -3008>>, <<7680, 7828, 2, 1>>, <<7838, 7838, 1, -7615>>, <<7840, 7934, 2, 1>>,
      <<7944, 7951, 1, -8>>, <<7960, 7965, 1, -8>>, <<7976, 7983, 1, -8>>, <<7992, 7999, 1, -8>>,
      <<8008, 8013, 1, -8>>, <<8025, 8031, 2, -8>>, <<8040, 8047, 1, -8>>, <<8072, 8079, 1, -8>>,
      <<8088, 8095, 1, -8>>, <<8104, 8111, 1, -8>>, <<8120, 8121, 1, -8>>, <<8122, 8123, 1, -74>>,
      <<8124, 8124, 1, -9>>, <<8136, 8139, 1, -86>>, <<8140, 8140, 1, -9>>, <<8152, 8153, 1, -8>>,
      <<8154, 8155, 1, -100>>, <<8168, 8169, 1, -8>>, <<8170, 8171, 1, -112>>, <<8172, 8172, 1, -7>>,
      <<8184, 8185, 1, -128>>, <<8186, 8187, 1, -126>>, <<8188, 8188, 1, -9>>, <<8486, 8486, 1, -7517>>,
      <<8490, 8490, 1, -8383>>, <<8491, 8491, 1, -8262>>, <<8498, 8498, 1, 28>>, <<8544, 8559, 1, 16>>,
      <<8579, 8579, 1, 1>>, <<9398, 9423, 1, 26>>, <<11264, 11311, 1, 48>>, <<11360, 11360, 1, 1>>,
      <<11362, 11362, 1, -10743>>, <<11363, 11363, 1, -3814>>, <<11364, 11364, 1, -10727>>, <<11367, 11371, 2, 1>>,
      <<11373, 11373, 1, -10780>>, <<11374, 11374, 1, -10749>>, <<11375, 11375, 1, -10783>>, <<11376, 11376, 1, -10782>>,
      <<11378, 11378, 1, 1>>, <<11381, 11381, 1, 1>>, <<11390, 11391, 1, -10815>>, <<11392, 11490, 2, 1>>,
      <<11499, 11501, 2, 1>>, <<11506, 11506, 1, 1>>, <<42560, 42604, 2, 1>>, <<42624, 42650, 2, 1>>,
      <<42786, 42798, 2, 1>>, <<42802, 42862, 2, 1>>, <<42873, 42875, 2, 1>>, <<42877, 42877, 1, -35332>>,
      <<42878, 42886, 2, 1>>, <<42891, 42891, 1, 1>>, <<42893, 42893, 1, -42280>>, <<42896, 42898, 2, 1>>,
      <<42902, 42920, 2, 1>>, <<42922, 42922, 1, -42308>>, <<42923, 42923, 1, -42319>>, <<42924, 42924, 1, -42315>>,
      <<42925, 42925, 1, -42305>>, <<42926, 42926, 1, -42308>>, <<42928, 42928, 1, -42258>>, <<42929, 42929, 1, -42282>>,
      <<42930, 42930, 1, -42261>>, <<42931, 42931, 1, 928>>, <<42932, 42946, 2, 1>>, <<42948, 42948, 1, -48>>,
      <<42949, 42949, 1, -42307>>, <<42950, 42950, 1, -35384>>, <<42951, 42953, 2, 1>>, <<42960, 42960, 1, 1>>,
      <<42966, 42968, 2, 1>>, <<42997, 42997, 1, 1>>, <<65313, 65338, 1, 32>>, <<66560, 66599, 1, 40>>,
      <<66736, 66771, 1, 40>>, <<66928, 66938, 1, 39>>, <<66940, 66954, 1, 39>>, <<66956, 66962, 1, 39>>,
      <<66964, 66965, 1, 39>>, <<68736, 68786, 1, 64>>, <<71840, 71871, 1, 32>>, <<93760, 93791, 1, 32>>,
      <<125184, 125217, 1, 34>> >>

\* The characters with the property Cased, and those with Case_Ignorable.
CasedRanges ==
    << <<65, 90>>, <<97, 122>>, <<170, 170>>, <<181, 181>>, <<186, 186>>, <<192, 214>>,
      <<216, 246>>, <<248, 442>>, <<444, 447>>, <<452, 659>>, <<661, 696>>, <<704, 705>>,
      <<736, 740>>, <<837, 837>>, <<880, 883>>, <<886, 887>>, <<890, 893>>, <<895, 895>>,
      <<902, 902>>, <<904, 906>>, <<908, 908>>, <<910, 929>>, <<931, 1013>>, <<1015, 1153>>,
      <<1162, 1327>>, <<1329, 1366>>, <<1376, 1416>>, <<4256, 4293>>, <<4295, 4295>>, <<4301, 4301>>,
      <<4304, 4346>>, <<4349, 4351>>, <<5024, 5109>>, <<5112, 5117>>, <<7296, 7304>>, <<7312, 7354>>,
      <<7357, 7359>>, <<7424, 7615>>, <<7680, 7957>>, <<7960, 7965>>, <<7968, 8005>>, <<8008, 8013>>,
      <<8016, 8023>>, <<8025, 8025>>, <<8027, 8027>>, <<8029, 8029>>, <<8031, 8061>>, <<8064, 8116>>,
      <<8118, 8124>>, <<8126, 8126>>, <<8130, 8132>>, <<8134, 8140>>, <<8144, 8147>>, <<8150, 8155>>,
      <<8160, 8172>>, <<8178, 8180>>, <<8182, 8188>>, <<8305, 8305>>, <<8319, 8319>>, <<8336, 8348>>,
      <<8450, 8450>>, <<8455, 8455>>, <<8458, 8467>>, <<8469, 8469>>, <<8473, 8477>>, <<8484, 8484>>,
      <<8486, 8486>>, <<8488, 8488>>, <<8490, 8493>>, <<8495, 8500>>, <<8505, 8505>>, <<8508, 8511>>,
      <<8517, 8521>>, <<8526, 8526>>, <<8544, 8575>>, <<8579, 8580>>, <<9398, 9449>>, <<11264, 11492>>,
      <<11499, 11502>>, <<11506, 11507>>, <<11520, 11557>>, <<11559, 11559>>, <<11565, 11565>>, <<42560, 42605>>,
      <<42624, 42653>>, <<42786, 42887>>, <<42891, 42894>>, <<42896, 42954>>, <<42960, 42961>>, <<42963, 42963>>,
      <<42965, 42969>>, <<42997, 42998>>, <<43000, 43002>>, <<43824, 43866>>, <<43868, 43880>>, <<43888, 43967>>,
      <<64256, 64262>>, <<64275, 64279>>, <<65313, 65338>>, <<65345, 65370>>, <<66560, 66639>>, <<66736, 66771>>,
      <<66776, 66811>>, <<66928, 66938>>, <<66940, 66954>>, <<66956, 66962>>, <<66964, 66965>>, <<66967, 66977>>,
      <<66979, 66993>>, <<66995, 67001>>, <<67003, 67004>>, <<67456, 67456>>, <<67459, 67461>>, <<67463, 67504>>,
      <<67506, 67514>>, <<68736, 68786>>, <<68800, 68850>>, <<71840, 71903>>, <<93760, 93823>>, <<119808, 119892>>,
      <<119894, 119964>>, <<119966, 119967>>, <<119970, 119970>>, <<119973, 119974>>, <<119977, 119980>>, <<119982, 119993>>,
      <<119995, 119995>>, <<119997, 120003>>, <<120005, 120069>>, <<120071, 120074>>, <<120077, 120084>>, <<120086, 120092>>,
      <<120094, 120121>>, <<120123, 120126>>, <<120128, 120132>>, <<120134, 120134>>, <<120138, 120144>>, <<120146, 120485>>,
      <<120488, 120512>>, <<120514, 120538>>, <<120540, 120570>>, <<120572, 120596>>, <<120598, 120628>>, <<120630, 120654>>,
      <<120656, 120686>>, <<120688, 120712>>, <<120714, 120744>>, <<120746, 120770>>, <<120772, 120779>>, <<122624, 122633>>,
      <<122635, 122654>>, <<125184, 125251>>, <<127280, 127305>>, <<127312, 127337>>, <<127344, 127369>> >>

CaseIgnorableRanges ==
    << <<39, 39>>, <<46, 46>>, <<58, 58>>, <<94, 94>>, <<96, 96>>, <<168, 168>>,
      <<173, 173>>, <<175, 175>>, <<180, 180>>, <<183, 184>>, <<688, 879>>, <<884, 885>>,
      <<890, 890>>, <<900, 901>>, <<903, 903>>, <<1155, 1161>>, <<1369, 1369>>, <<1375, 1375>>,
      <<1425, 1469>>, <<1471, 1471>>, <<1473, 1474>>, <<1476, 1477>>, <<1479, 1479>>, <<1524, 1524>>,
      <<1536, 1541>>, <<1552, 1562>>, <<1564, 1564>>, <<1600, 1600>>, <<1611, 1631>>, <<1648, 1648>>,
      <<1750, 1757>>, <<1759, 1768>>, <<1770, 1773>>, <<1807, 1807>>, <<1809, 1809>>, <<1840, 1866>>,
      <<1958, 1968>>, <<2027, 2037>>, <<2042, 2042>>, <<2045, 2045>>, <<2070, 2093>>, <<2137, 2139>>,
      <<2184, 2184>>, <<2192, 2193>>, <<2200, 2207>>, <<2249, 2306>>, <<2362, 2362>>, <<2364, 2364>>,
      <<2369, 2376>>, <<2381, 2381>>, <<2385, 2391>>, <<2402, 2403>>, <<2417, 2417>>, <<2433, 2433>>,
      <<2492, 2492>>, <<2497, 2500>>, <<2509, 2509>>, <<2530, 2531>>, <<2558, 2558>>, <<2561, 2562>>,
      <<2620, 2620>>, <<2625, 2626>>, <<2631, 2632>>, <<2635, 2637>>, <<2641, 2641>>, <<2672, 2673>>,
      <<2677, 2677>>, <<2689, 2690>>, <<2748, 2748>>, <<2753, 2757>>, <<2759, 2760>>, <<2765, 2765>>,
      <<2786, 2787>>, <<2810, 2815>>, <<2817, 2817>>, <<2876, 2876>>, <<2879, 2879>>, <<2881, 2884>>,
      <<2893, 2893>>, <<2901, 2902>>, <<2914, 2915>>, <<2946, 2946>>, <<3008, 3008>>, <<3021, 3021>>,
      <<3072, 3072>>, <<3076, 3076>>, <<3132, 3132>>, <<3134, 3136>>, <<3142, 3144>>, <<3146, 3149>>,
      <<3157, 3158>>, <<3170, 3171>>, <<3201, 3201>>, <<3260, 3260>>, <<3263, 3263>>, <<3270, 3270>>,
      <<3276, 3277>>, <<3298, 3299>>, <<3328, 3329>>, <<3387, 3388>>, <<3393, 3396>>, <<3405, 3405>>,
      <<3426, 3427>>, <<3457, 3457>>, <<3530, 3530>>, <<3538, 3540>>, <<3542, 3542>>, <<3633, 3633>>,
      <<3636, 3642>>, <<3654, 3662>>, <<3761, 3761>>, <<3764, 3772>>, <<3782, 3782>>, <<3784, 3789>>,
      <<3864, 3865>>, <<3893, 3893>>, <<3895, 3895>>, <<3897, 3897>>, <<3953, 3966>>, <<3968, 3972>>,
      <<3974, 3975>>, <<3981, 3991>>, <<3993, 4028>>, <<4038, 4038>>, <<4141, 4144>>, <<4146, 4151>>,
      <<4153, 4154>>, <<4157, 4158>>, <<4184, 4185>>, <<4190, 4192>>, <<4209, 4212>>, <<4226, 4226>>,
      <<4229, 4230>>, <<4237, 4237>>, <<4253, 4253>>, <<4348, 4348>>, <<4957, 4959>>, <<5906, 5908>>,
      <<5938, 5939>>, <<5970, 5971>>, <<6002, 6003>>, <<6068, 6069>>, <<6071, 6077>>, <<6086, 6086>>,
      <<6089, 6099>>, <<6103, 6103>>, <<6109, 6109>>, <<6155, 6159>>, <<6211, 6211>>, <<6277, 6278>>,
      <<6313, 6313>>, <<6432, 6434>>, <<6439, 6440>>, <<6450, 6450>>, <<6457, 6459>>, <<6679, 6680>>,
      <<6683, 6683>>, <<6742, 6742>>, <<6744, 6750>>, <<6752, 6752>>, <<6754, 6754>>, <<6757, 6764>>,
      <<6771, 6780>>, <<6783, 6783>>, <<6823, 6823>>, <<6832, 6862>>, <<6912, 6915>>, <<6964, 6964>>,
      <<6966, 6970>>, <<6972, 6972>>, <<6978, 6978>>, <<7019, 7027>>, <<7040, 7041>>, <<7074, 7077>>,
      <<7080, 7081>>, <<7083, 7085>>, <<7142, 7142>>, <<7144, 7145>>, <<7149, 7149>>, <<7151, 7153>>,
      <<7212, 7219>>, <<7222, 7223>>, <<7288, 7293>>, <<7376, 7378>>, <<7380, 7392>>, <<7394, 7400>>,
      <<7405, 7405>>, <<7412, 7412>>, <<7416, 7417>>, <<7468, 7530>>, <<7544, 7544>>, <<7579, 7679>>,
      <<8125, 8125>>, <<8127, 8129>>, <<8141, 8143>>, <<8157, 8159>>, <<8173, 8175>>, <<8189, 8190>>,
      <<8203, 8207>>, <<8216, 8217>>, <<8228, 8228>>, <<8231, 8231>>, <<8234, 8238>>, <<8288, 8292>>,
      <<8294, 8303>>, <<8305, 8305>>, <<8319, 8319>>, <<8336, 8348>>, <<8400, 8432>>, <<11388, 11389>>,
      <<11503, 11505>>, <<11631, 11631>>, <<11647, 11647>>, <<11744, 11775>>, <<11823, 11823>>, <<12293, 12293>>,
      <<12330, 12333>>, <<12337, 12341>>, <<12347, 12347>>, <<12441, 12446>>, <<12540, 12542>>, <<40981, 40981>>,
      <<42232, 42237>>, <<42508, 42508>>, <<42607, 42610>>, <<42612, 42621>>, <<42623, 42623>>, <<42652, 42655>>,
      <<42736, 42737>>, <<42752, 42785>>, <<42864, 42864>>, <<42888, 42890>>, <<42994, 42996>>, <<43000, 43001>>,
      <<43010, 43010>>, <<43014, 43014>>, <<43019, 43019>>, <<43045, 43046>>, <<43052, 43052>>, <<43204, 43205>>,
      <<43232, 43249>>, <<43263, 43263>>, <<43302, 43309>>, <<43335, 43345>>, <<43392, 43394>>, <<43443, 43443>>,
      <<43446, 43449>>, <<43452, 43453>>, <<43471, 43471>>, <<43493, 43494>>, <<43561, 43566>>, <<43569, 43570>>,
      <<43573, 43574>>, <<43587, 43587>>, <<43596, 43596>>, <<43632, 43632>>, <<43644, 43644>>, <<43696, 43696>>,
      <<43698, 43700>>, <<43703, 43704>>, <<43710, 43711>>, <<43713, 43713>>, <<43741, 43741>>, <<43756, 43757>>,
      <<43763, 43764>>, <<43766, 43766>>, <<43867, 43871>>, <<43881, 43883>>, <<44005, 44005>>, <<44008, 44008>>,
      <<44013, 44013>>, <<64286, 64286>>, <<64434, 64450>>, <<65024, 65039>>, <<65043, 65043>>, <<65056, 65071>>,
      <<65106, 65106>>, <<65109, 65109>>, <<65279, 65279>>, <<65287, 65287>>, <<65294, 65294>>, <<65306, 65306>>,
      <<65342, 65342>>, <<65344, 65344>>, <<65392, 65392>>, <<65438, 65439>>, <<65507, 65507>>, <<65529, 65531>>,
      <<66045, 66045>>, <<66272, 66272>>, <<66422, 66426>>, <<67456, 67461>>, <<67463, 67504>>, <<67506, 67514>>,
      <<68097, 68099>>, <<68101, 68102>>, <<68108, 68111>>, <<68152, 68154>>, <<68159, 68159>>, <<68325, 68326>>,
      <<68900, 68903>>, <<69291, 69292>>, <<69446, 69456>>, <<69506, 69509>>, <<69633, 69633>>, <<69688, 69702>>,
      <<69744, 69744>>, <<69747, 69748>>, <<69759, 69761>>, <<69811, 69814>>, <<69817, 69818>>, <<69821, 69821>>,
      <<69826, 69826>>, <<69837, 69837>>, <<69888, 69890>>, <<69927, 69931>>, <<69933, 69940>>, <<70003, 70003>>,
      <<70016, 70017>>, <<70070, 70078>>, <<70089, 70092>>, <<70095, 70095>>, <<70191, 70193>>, <<70196, 70196>>,
      <<70198, 70199>>, <<70206, 70206>>, <<70367, 70367>>, <<70371, 70378>>, <<70400, 70401>>, <<70459, 70460>>,
      <<70464, 70464>>, <<70502, 70508>>, <<70512, 70516>>, <<70712, 70719>>, <<70722, 70724>>, <<70726, 70726>>,
      <<70750, 70750>>, <<70835, 70840>>, <<70842, 70842>>, <<70847, 70848>>, <<70850, 70851>>, <<71090, 71093>>,
      <<71100, 71101>>, <<71103, 71104>>, <<71132, 71133>>, <<71219, 71226>>, <<71229, 71229>>, <<71231, 71232>>,
      <<71339, 71339>>, <<71341, 71341>>, <<71344, 71349>>, <<71351, 71351>>, <<71453, 71455>>, <<71458, 71461>>,
      <<71463, 71467>>, <<71727, 71735>>, <<71737, 71738>>, <<71995, 71996>>, <<71998, 71998>>, <<72003, 72003>>,
      <<72148, 72151>>, <<72154, 72155>>, <<72160, 72160>>, <<72193, 72202>>, <<72243, 72248>>, <<72251, 72254>>,
      <<72263, 72263>>, <<72273, 72278>>, <<72281, 72283>>, <<72330, 72342>>, <<72344, 72345>>, <<72752, 72758>>,
      <<72760, 72765>>, <<72767, 72767>>, <<72850, 72871>>, <<72874, 72880>>, <<72882, 72883>>, <<72885, 72886>>,
      <<73009, 73014>>, <<73018, 73018>>, <<73020, 73021>>, <<73023, 73029>>, <<73031, 73031>>, <<73104, 73105>>,
      <<73109, 73109>>, <<73111, 73111>>, <<73459, 73460>>, <<78896, 78904>>, <<92912, 92916>>, <<92976, 92982>>,
      <<92992, 92995>>, <<94031, 94031>>, <<94095, 94111>>, <<94176, 94177>>, <<94179, 94180>>, <<110576, 110579>>,
      <<110581, 110587>>, <<110589, 110590>>, <<113821, 113822>>, <<113824, 113827>>, <<118528, 118573>>, <<118576, 118598>>,
      <<119143, 119145>>, <<119155, 119170>>, <<119173, 119179>>, <<119210, 119213>>, <<119362, 119364>>, <<121344, 121398>>,
      <<121403, 121452>>, <<121461, 121461>>, <<121476, 121476>>, <<121499, 121503>>, <<121505, 121519>>, <<122880, 122886>>,
      <<122888, 122904>>, <<122907, 122913>>, <<122915, 122916>>, <<122918, 122922>>, <<123184, 123197>>, <<123566, 123566>>,
      <<123628, 123631>>, <<125136, 125142>>, <<125252, 125259>>, <<127995, 127999>>, <<917505, 917505>>, <<917536, 917631>>,
      <<917760, 917999>> >>

IsWordChar(c) == InRanges(c, WordRanges)

IsSpaceChar(c) == InRanges(c, SpaceRanges)

\* Py_UNICODE_TODECIMAL: the digit a decimal digit character stands for, -1
\* for any other character.
ToDecimal(c) ==
    IF InRanges(c, DecimalRanges) THEN c - DecimalRanges[EntryFor(c, DecimalRanges)][1]
    ELSE -1

\* The lower case of one character other than capital sigma: one character,
\* or two for capital I with dot above.
LowerChar(c) ==
    IF c = 304 THEN <<105, 775>>
    ELSE IF /\ InRanges(c, LowerRuns)
            /\ (c - LowerRuns[EntryFor(c, LowerRuns)][1]) % LowerRuns[EntryFor(c, LowerRuns)][3] = 0
    THEN <<c + LowerRuns[EntryFor(c, LowerRuns)][4]>>
    ELSE <<c>>

\* The capital sigma at index i of s is final: a cased character comes before
\* it and none after it, case-ignorable characters skipped on both sides.
FinalSigma(s, i) ==
    /\ \E j \in 0..(i - 1) :
          /\ InRanges(Char(s, j), CasedRanges)
          /\ \A k \in j..(i - 1) : k # j => InRanges(Char(s, k), CaseIgnorableRanges)
          /\ ~InRanges(Char(s, j), CaseIgnorableRanges)
    /\ ~ \E j \in (i + 1)..(Len(s) - 1) :
          /\ InRanges(Char(s, j), CasedRanges)
          /\ \A k \in (i + 1)..j : k # j => InRanges(Char(s, k), CaseIgnorableRanges)
          /\ ~InRanges(Char(s, j), CaseIgnorableRanges)

\* str.lower(): s[i:] in lower case, each character in its place in s.
RECURSIVE LowerFrom(_, _)
LowerFrom(s, i) ==
    IF i >= Len(s) THEN <<>>
    ELSE (IF Char(s, i) = 931
          THEN (IF FinalSigma(s, i) THEN <<962>> ELSE <<963>>)
          ELSE LowerChar(Char(s, i)))
         \o LowerFrom(s, i + 1)

Lower(s) == LowerFrom(s, 0)

\* sep.join(parts)
RECURSIVE Join(_, _)
Join(sep, parts) ==
    IF parts = <<>> THEN <<>>
    ELSE IF Len(parts) = 1 THEN parts[1]
    ELSE parts[1] \o sep \o Join(sep, Tail(parts))

(***************************************************************************)
(* Tokenizer: re.findall(r'\b\w+[\.\w]*\b|[^\w\s]', sentence)               *)
(***************************************************************************)

\* First index >= p whose character is neither \w nor '.', or Len(s).
RECURSIVE RunEnd(_, _)
RunEnd(s, p) ==
    IF p < Len(s) /\ (IsWordChar(Char(s, p)) \/ Char(s, p) = 46)
    THEN RunEnd(s, p + 1)
    ELSE p

\* The closing \b: the greedy run [\.\w]* gives back its trailing periods until
\* the character before the end is a word character.
RECURSIVE BacktrackEnd(_, _)
BacktrackEnd(s, e) == IF IsWordChar(Char(s, e - 1)) THEN e ELSE BacktrackEnd(s, e - 1)

\* The matches found scanning from index p, in order.
RECURSIVE TokensFrom(_, _)
TokensFrom(s, p) ==
    IF p >= Len(s) THEN <<>>
    ELSE IF IsWordChar(Char(s, p)) /\ ~IsWordChar(Char(s, p - 1))
    THEN <<Slice(s, p, BacktrackEnd(s, RunEnd(s, p)))>>
         \o TokensFrom(s, BacktrackEnd(s, RunEnd(s, p)))
    ELSE IF ~IsWordChar(Char(s, p)) /\ ~IsSpaceChar(Char(s, p))
    THEN <<(<<Char(s, p)>>)>> \o TokensFrom(s, p + 1)
    ELSE TokensFrom(s, p + 1)

Tokenize(sentence) == TokensFrom(sentence, 0)

(***************************************************************************)
(* normalize_number: float(num_str), None when it raises.                  *)
(*                                                                         *)
(* A float is a record: kind "inf", "nan" or "num", its sign, and for      *)
(* "num" the double's value mant * 2^exp, mant the bits of an integer      *)
(* below 2^53, most significant first and without leading zeros (empty     *)
(* for zero), with exactly 53 bits unless exp = -1074.                     *)
(***************************************************************************)

None == [kind |-> "none", neg |-> FALSE, mant |-> <<>>, exp |-> 0]

Max(x, y) == IF x >= y THEN x ELSE y
Min(x, y) == IF x <= y THEN x ELSE y

\* _PyUnicode_TransformDecimalAndSpaceToASCII: an ASCII str is kept; in any
\* other, a character from 127 on becomes a space if it is white space, its
\* ASCII digit if it is a decimal digit, and otherwise '?', which ends the
\* result.
RECURSIVE TransformFrom(_, _)
TransformFrom(s, i) ==
    IF i >= Len(s) THEN <<>>
    ELSE IF Char(s, i) < 127 THEN <<Char(s, i)>> \o TransformFrom(s, i + 1)
    ELSE IF IsSpaceChar(Char(s, i)) THEN <<32>> \o TransformFrom(s, i + 1)
    ELSE IF ToDecimal(Char(s, i)) >= 0
    THEN <<48 + ToDecimal(Char(s, i))>> \o TransformFrom(s, i + 1)
    ELSE <<63>>

TransformDecimalAndSpaceToASCII(s) ==
    IF \A k \in DOMAIN s : s[k] < 128 THEN s ELSE TransformFrom(s, 0)

\* Py_ISSPACE, the white space float() drops at both ends.
IsAsciiSpace(c) == c \in {9, 10, 11, 12, 13, 32}

\* Py_ISDIGIT, on the characters TransformDecimalAndSpaceToASCII left.
IsAsciiDigit(c) == 48 <= c /\ c <= 57

StripLeft(s) ==
    Slice(s, (CHOOSE p \in 0..Len(s) :
                  /\ \A k \in 0..(p - 1) : IsAsciiSpace(Char(s, k))
                  /\ ~IsAsciiSpace(Char(s, p))), Len(s))
StripRight(s) ==
    Slice(s, 0, (CHOOSE e \in 0..Len(s) :
                     /\ \A k \in e..(Len(s) - 1) : IsAsciiSpace(Char(s, k))
                     /\ ~IsAsciiSpace(Char(s, e - 1))))
Strip(s) == StripRight(StripLeft(s))

\* float() accepts an underscore only directly between two digits.
UnderscoresOk(s) ==
    \A k \in 0..(Len(s) - 1) :
        Char(s, k) = 95 => IsAsciiDigit(Char(s, k - 1)) /\ IsAsciiDigit(Char(s, k + 1))

DropUnderscores(s) == SelectSeq(s, LAMBDA c : c # 95)

AllDigits(s) == \A k \in 0..(Len(s) - 1) : IsAsciiDigit(Char(s, k))

\* Index of the first character of s that is in set, or Len(s).
FirstIn(s, set) ==
    CHOOSE p \in 0..Len(s) :
        /\ \A k \in 0..(p - 1) : Char(s, k) \notin set
        /\ p < Len(s) => Char(s, p) \in set

\* The digits (0 to 9) of a run of digit characters.
DigitValues(s) == [k \in 1..Len(s) |-> s[k] - 48]

\* d without its leading zeros, d a sequence of digits or of bits.
DropLeadingZeros(d) ==
    SubSeq(d, (CHOOSE p \in 1..(Len(d) + 1) :
                   /\ \A k \in 1..(p - 1) : d[k] = 0
                   /\ p <= Len(d) => d[p] # 0), Len(d))

\* The number a sequence of at most nine digits denotes.
RECURSIVE DecimalValue(_)
DecimalValue(d) ==
    IF d = <<>> THEN 0 ELSE 10 * DecimalValue(SubSeq(d, 1, Len(d) - 1)) + d[Len(d)]

\* The limits of _Py_dg_strtod, which float() calls: a literal with more
\* significant digits, or more digits after the point, than MAX_DIGITS is
\* rejected, and an exponent of more than nine significant digits counts as
\* MAX_ABS_EXP.
MAX_DIGITS == 1000000000
MAX_ABS_EXP == 1100000000

\* The absolute value of the exponent whose digits are d.
ExponentValue(d) ==
    IF Len(DropLeadingZeros(d)) > 9 THEN MAX_ABS_EXP ELSE DecimalValue(DropLeadingZeros(d))

\* The decimal number d div 2, d its digits, most significant first: the
\* remainder carried into a digit is the parity of the digit before it.
Halve(d) ==
    DropLeadingZeros([k \in 1..Len(d) |->
                         ((IF k > 1 THEN 10 * (d[k - 1] % 2) ELSE 0) + d[k]) \div 2])

\* The fraction part of 2 * 0.f, f the digits after the point: the carry a
\* digit receives is 1 exactly when the digit after it is at least 5.
Double(f) ==
    SubSeq([k \in 1..Len(f) |->
               (2 * f[k] + (IF k < Len(f) /\ f[k + 1] >= 5 THEN 1 ELSE 0)) % 10],
           1, Len(f))

\* One step of the conversion of an integer: st = <<digits left, bits found>>.
IntStep(st) ==
    <<Halve(st[1]), (IF st[1] = <<>> THEN <<>> ELSE <<st[1][Len(st[1])] % 2>>) \o st[2]>>

\* One step of the conversion of a fraction: st = <<digits left, bits found>>.
FracStep(st) ==
    <<Double(st[1]), Append(st[2], IF st[1] # <<>> /\ st[1][1] >= 5 THEN 1 ELSE 0)>>

\* n steps on st: the second half of them on the result of the first half.
RECURSIVE IntSteps(_, _)
IntSteps(st, n) ==
    IF n = 0 THEN st
    ELSE IF n = 1 THEN IntStep(st)
    ELSE CHOOSE r \in {IntSteps(mid, n - n \div 2) : mid \in {IntSteps(st, n \div 2)}} : TRUE

RECURSIVE FracSteps(_, _)
FracSteps(st, n) ==
    IF n = 0 THEN st
    ELSE IF n = 1 THEN FracStep(st)
    ELSE CHOOSE r \in {FracSteps(mid, n - n \div 2) : mid \in {FracSteps(st, n \div 2)}} : TRUE

\* The bits of the integer of digits d, most significant first, no leading
\* zero: an integer of n digits has at most 10 * n / 3 + 1 bits.
IntBits(d) == IntSteps(<<d, <<>>>>, (10 * Len(d)) \div 3 + 1)[2]

\* m + 1 on bits.
Increment(m) ==
    IF \A k \in DOMAIN m : m[k] = 1 THEN <<1>> \o [k \in DOMAIN m |-> 0]
    ELSE [k \in DOMAIN m |->
             IF \E j \in (k + 1)..Len(m) : m[j] = 0 THEN m[k]
             ELSE IF m[k] = 0 THEN 1 ELSE 0]

\* The double of mantissa bits m and exponent e: a mantissa that rounding
\* carried to 54 bits loses its last (zero) bit, nothing is zero, and a value
\* of 2^1024 or more is infinite.
MakeDouble(neg, m, e) ==
    IF m = <<>> THEN [kind |-> "num", neg |-> neg, mant |-> <<>>, exp |-> 0]
    ELSE IF Len(m) = 54 THEN
        (IF e + 54 > 1024 THEN [kind |-> "inf", neg |-> neg, mant |-> <<>>, exp |-> 0]
         ELSE [kind |-> "num", neg |-> neg, mant |-> SubSeq(m, 1, 53), exp |-> e + 1])
    ELSE IF e + Len(m) > 1024 THEN [kind |-> "inf", neg |-> neg, mant |-> <<>>, exp |-> 0]
    ELSE [kind |-> "num", neg |-> neg, mant |-> m, exp |-> e]

\* Round half to even: m the bits kept, half the bit after them, rest whether
\* anything nonzero follows.
RoundBits(m, half, rest) ==
    IF half = 1 /\ (rest \/ (m # <<>> /\ m[Len(m)] = 1)) THEN Increment(m) ELSE m

\* The double nearest to the number whose bits are S, the first lenInt of
\* them before the binary point, followed by something nonzero iff more: the
\* bits down to exponent e are kept, e = (exponent of the first 1) - 52 and
\* at least -1074.
RoundAt(neg, S, lenInt, more, e) ==
    MakeDouble(neg,
               RoundBits(DropLeadingZeros(SubSeq(S, 1, lenInt - e)),
                         S[lenInt - e + 1],
                         more \/ \E k \in (lenInt - e + 2)..Len(S) : S[k] = 1),
               e)

RoundStream(neg, S, lenInt, more) ==
    IF \A k \in DOMAIN S : S[k] = 0
    THEN MakeDouble(neg, <<>>, 0)
    ELSE RoundAt(neg, S, lenInt, more,
                 Max(lenInt - (CHOOSE p \in DOMAIN S :
                                   S[p] = 1 /\ \A k \in 1..(p - 1) : S[k] = 0) - 52,
                     -1074))

\* The double nearest to the number of integer bits ib whose fraction is
\* frac = <<digits left, bits found>>.
RoundParts(neg, ib, frac) ==
    RoundStream(neg, ib \o frac[2], Len(ib), \E k \in DOMAIN frac[1] : frac[1][k] # 0)

\* The double nearest to the number of integer bits ib and fraction digits
\* frac, which start with zeros zeros: 54 bits from the first 1 on decide it,
\* and no bit below 2^-1075 does; the first 1 of a fraction comes after at
\* most 10 * (zeros + 1) / 3 zero bits.  Without fraction digits the bits
\* after the point are zeros.
RoundDecimal(neg, ib, frac, zeros) ==
    RoundParts(neg, ib,
               IF frac = <<>> THEN <<(<<>>), [k \in 1..Max(0, 54 - Len(ib)) |-> 0]>>
               ELSE FracSteps(<<frac, <<>>>>,
                              IF ib # <<>> THEN Max(0, 54 - Len(ib))
                              ELSE Min((10 * (zeros + 1)) \div 3 + 55, 1075)))

\* The double nearest to d * 10^e, d digits without leading zeros: infinite
\* from 10^309 on and zero below 10^-324, whatever the digits.
Canonical(neg, d, e) ==
    IF d = <<>> THEN MakeDouble(neg, <<>>, 0)
    ELSE IF Len(d) + e > 309 THEN [kind |-> "inf", neg |-> neg, mant |-> <<>>, exp |-> 0]
    ELSE IF Len(d) + e < -323 THEN MakeDouble(neg, <<>>, 0)
    ELSE IF e >= 0 THEN RoundDecimal(neg, IntBits(d \o [k \in 1..e |-> 0]), <<>>, 0)
    ELSE IF Len(d) + e > 0
    THEN RoundDecimal(neg, IntBits(SubSeq(d, 1, Len(d) + e)),
                      SubSeq(d, Len(d) + e + 1, Len(d)), 0)
    ELSE RoundDecimal(neg, <<>>, [k \in 1..(0 - e - Len(d)) |-> 0] \o d, 0 - e - Len(d))

\* The exponent part of a literal, text the characters after 'e': its value,
\* or <<>> when it is not [sign]digits.
ExponentOf(text) ==
    IF Char(text, 0) \in {43, 45}
    THEN (IF Len(text) > 1 /\ AllDigits(Tail(text))
          THEN <<(IF Char(text, 0) = 45 THEN -1 ELSE 1)
                 * ExponentValue(DigitValues(Tail(text)))>>
          ELSE <<>>)
    ELSE IF Len(text) > 0 /\ AllDigits(text) THEN <<ExponentValue(DigitValues(text))>>
    ELSE <<>>

\* The mantissa of a literal: [digits][.[digits]] with a digit somewhere,
\* given as <<digits, number of digits after the point>>, or <<>>.
MantissaOf(text, dot) ==
    IF /\ AllDigits(Slice(text, 0, dot))
       /\ AllDigits(Slice(text, dot + 1, Len(text)))
       /\ Len(Slice(text, 0, dot)) + Len(Slice(text, dot + 1, Len(text))) > 0
    THEN <<DigitValues(Slice(text, 0, dot) \o Slice(text, dot + 1, Len(text))),
           Len(Slice(text, dot + 1, Len(text)))>>
    ELSE <<>>

\* The value of mantissa m and exponent x, as the two operators above give
\* them.
ValueOf(neg, m, x) ==
    IF m = <<>> \/ x = <<>> THEN None
    ELSE IF Len(DropLeadingZeros(m[1])) > MAX_DIGITS \/ m[2] > MAX_DIGITS THEN None
    ELSE Canonical(neg, DropLeadingZeros(m[1]), x[1] - m[2])

\* An unsigned literal without underscores, the index of its 'e' or 'E'
\* given (its length when it has none).
ParseAt(neg, body, epos) ==
    ValueOf(neg,
            MantissaOf(Slice(body, 0, epos), FirstIn(Slice(body, 0, epos), {46})),
            IF epos < Len(body) THEN ExponentOf(Slice(body, epos + 1, Len(body)))
            ELSE <<0>>)

ParseUnsigned(neg, body) == ParseAt(neg, body, FirstIn(body, {101, 69}))

\* Py_TOLOWER on every character.
AsciiLower(s) == [k \in 1..Len(s) |-> IF 65 <= s[k] /\ s[k] <= 90 THEN s[k] + 32 ELSE s[k]]

\* The literal raw after its sign, body the same without underscores.
ParseSigned(neg, body) ==
    IF AsciiLower(body) \in {<<105, 110, 102>>, <<105, 110, 102, 105, 110, 105, 116, 121>>}
    THEN [kind |-> "inf", neg |-> neg, mant |-> <<>>, exp |-> 0]
    ELSE IF AsciiLower(body) = <<110, 97, 110>>
    THEN [kind |-> "nan", neg |-> neg, mant |-> <<>>, exp |-> 0]
    ELSE ParseUnsigned(neg, body)

\* float() of a str already transformed and stripped.
ParseFloat(stripped) ==
    IF ~UnderscoresOk(stripped) THEN None
    ELSE IF Char(stripped, 0) \in {43, 45}
    THEN (IF Len(stripped) = 1 THEN None
          ELSE ParseSigned(Char(stripped, 0) = 45, DropUnderscores(Tail(stripped))))
    ELSE IF stripped = <<>> THEN None
    ELSE ParseSigned(FALSE, DropUnderscores(stripped))

normalize_number(num_str) == ParseFloat(Strip(TransformDecimalAndSpaceToASCII(num_str)))

\* doc_num == html_num on two floats: nan equals nothing, itself included,
\* and the two zeros are equal.
NumbersEqual(x, y) ==
    /\ x.kind # "nan"
    /\ y.kind # "nan"
    /\ \/ x = y
       \/ x.kind = "num" /\ y.kind = "num" /\ x.mant = <<>> /\ y.mant = <<>>

(***************************************************************************)
(* SequenceMatcher(None, a, b).ratio() of difflib: isjunk is None, so no   *)
(* character is junk, and autojunk is left True.                           *)
(*                                                                         *)
(* A score is the fraction <<numerator, denominator>>, denominator > 0;    *)
(* the code's floats compare as these fractions do.                        *)
(***************************************************************************)

\* bpopular: in a b of 200 characters or more, the characters that occur
\* more than len(b) // 100 + 1 times; they are left out of b2j.
Popular(b) ==
    IF Len(b) >= 200
    THEN {c \in Range(b) : Cardinality({k \in DOMAIN b : b[k] = c}) > Len(b) \div 100 + 1}
    ELSE {}

\* Length of the run a[i:i+k] == b[j:j+k] inside a[:ahi], b[:bhi] that b2j
\* yields: equal characters, none of them popular.
RECURSIVE RunLen(_, _, _, _, _, _, _)
RunLen(a, b, popular, i, j, ahi, bhi) ==
    IF i < ahi /\ j < bhi /\ Char(a, i) = Char(b, j) /\ Char(b, j) \notin popular
    THEN 1 + RunLen(a, b, popular, i + 1, j + 1, ahi, bhi)
    ELSE 0

SetMax(S) == CHOOSE x \in S : \A y \in S : y <= x
SetMin(S) == CHOOSE x \in S : \A y \in S : x <= y

\* RunLen for every start <<i, j>> in a[alo:ahi], b[blo:bhi].
RunTable(a, b, popular, alo, ahi, blo, bhi) ==
    [i \in alo..(ahi - 1) |->
        [j \in blo..(bhi - 1) |-> RunLen(a, b, popular, i, j, ahi, bhi)]]

\* The block <<i, j, k>> of a table of run lengths: the longest run, of those
\* the one starting earliest in a, of those the one starting earliest in b;
\* <<alo, blo, 0>> when the table has no run.
LongestIn(run, alo, blo) ==
    LET rows == DOMAIN run
        cols == IF rows = {} THEN {} ELSE DOMAIN run[SetMin(rows)]
        sizes == {run[i][j] : i \in rows, j \in cols}
        bestsize == IF sizes = {} THEN 0 ELSE SetMax(sizes)
        besti == SetMin({i \in rows : \E j \in cols : run[i][j] = bestsize})
    IN  IF bestsize = 0 THEN <<alo, blo, 0>>
        ELSE <<besti, SetMin({j \in cols : run[besti][j] = bestsize}), bestsize>>

\* The number of equal characters just before a[i], b[j] inside a[alo:],
\* b[blo:], and from a[i], b[j] on inside a[:ahi], b[:bhi], popular or not.
RECURSIVE EqualBefore(_, _, _, _, _, _)
EqualBefore(a, b, i, j, alo, blo) ==
    IF i > alo /\ j > blo /\ Char(a, i - 1) = Char(b, j - 1)
    THEN 1 + EqualBefore(a, b, i - 1, j - 1, alo, blo)
    ELSE 0

RECURSIVE EqualFrom(_, _, _, _, _, _)
EqualFrom(a, b, i, j, ahi, bhi) ==
    IF i < ahi /\ j < bhi /\ Char(a, i) = Char(b, j)
    THEN 1 + EqualFrom(a, b, i + 1, j + 1, ahi, bhi)
    ELSE 0

\* The block m extended forward by n characters.
ExtendForward(m, n) == <<m[1], m[2], m[3] + n>>

\* The block m extended backward by n characters, then forward as far as the
\* characters are equal.
ExtendBackward(a, b, ahi, bhi, m, n) ==
    ExtendForward(<<m[1] - n, m[2] - n, m[3] + n>>,
                  EqualFrom(a, b, m[1] + m[3], m[2] + m[3], ahi, bhi))

\* The two loops that extend the best block by equal characters on each side.
Extend(a, b, alo, ahi, blo, bhi, m) ==
    ExtendBackward(a, b, ahi, bhi, m, EqualBefore(a, b, m[1], m[2], alo, blo))

\* find_longest_match(alo, ahi, blo, bhi)
find_longest_match(a, b, popular, alo, ahi, blo, bhi) ==
    Extend(a, b, alo, ahi, blo, bhi,
           LongestIn(RunTable(a, b, popular, alo, ahi, blo, bhi), alo, blo))

\* The sum of the sizes of get_matching_blocks(): the longest block m of the
\* range, then the pieces to its left and to its right, recursively.
RECURSIVE CountMatches(_, _, _, _, _, _, _)
RECURSIVE CountAround(_, _, _, _, _, _, _, _)
CountAround(a, b, popular, alo, ahi, blo, bhi, m) ==
    IF m[3] = 0 THEN 0
    ELSE m[3]
         + (IF alo < m[1] /\ blo < m[2]
            THEN CountMatches(a, b, popular, alo, m[1], blo, m[2]) ELSE 0)
         + (IF m[1] + m[3] < ahi /\ m[2] + m[3] < bhi
            THEN CountMatches(a, b, popular, m[1] + m[3], ahi, m[2] + m[3], bhi) ELSE 0)

CountLongestOnly(a, b, popular, alo, ahi, blo, bhi) ==
    find_longest_match(a, b, popular, alo, ahi, blo, bhi)[3]

CountMatches(a, b, popular, alo, ahi, blo, bhi) ==
    CountAround(a, b, popular, alo, ahi, blo, bhi,
                find_longest_match(a, b, popular, alo, ahi, blo, bhi))

\* _calculate_ratio(matches, length): 2.0 * matches / length, and 1.0 when
\* length is 0.
calculate_ratio(matches, length) ==
    IF length # 0 THEN <<2 * matches, length>> ELSE <<1, 1>>

\* ratio()
ratio(a, b) ==
    calculate_ratio(CountMatches(a, b, Popular(b), 0, Len(a), 0, Len(b)), Len(a) + Len(b))

\* x > y and x >= y on fractions with positive denominators.
ScoreGt(x, y) == x[1] * y[2] > y[1] * x[2]
ScoreGe(x, y) == x[1] * y[2] >= y[1] * x[2]

(***************************************************************************)
(* highlight_differences                                                   *)
(***************************************************************************)

\* The pieces of f'<span class="{cls}">{token}</span>' and the class names
\* the code writes into it.
SpanOpen == Text("<span class=\"")
SpanQuote == Text("\">")
SpanClose == Text("</span>")
ClassText ==
    [cls \in {"equal", "case-diff", "decimal-diff", "diff", "missing", "extra"} |-> Text(cls)]

\* The separator of line 76.
Space == Text(" ")

\* f'<span class="{cls}">{token}</span>'
Mark(cls, token) == SpanOpen \o ClassText[cls] \o SpanQuote \o token \o SpanClose

\* doc_num is not None and html_num is not None and doc_num == html_num
SameNumber(doc_num, html_num) ==
    doc_num # None /\ html_num # None /\ NumbersEqual(doc_num, html_num)

\* The branch taken for two tokens both present (lines 59-74); "equal" is
\* the branch that emits both tokens unmarked.
TokenClassNumberFirst(doc_token, html_token) ==
    IF doc_token = html_token THEN "equal"
    ELSE IF SameNumber(normalize_number(doc_token), normalize_number(html_token))
    THEN "decimal-diff"
    ELSE IF Lower(doc_token) = Lower(html_token) THEN "case-diff"
    ELSE "diff"

TokenClass(doc_token, html_token) ==
    IF doc_token = html_token THEN "equal"
    ELSE IF Lower(doc_token) = Lower(html_token) THEN "case-diff"
    ELSE IF SameNumber(normalize_number(doc_token), normalize_number(html_token))
    THEN "decimal-diff"
    ELSE "diff"

\* What one token looks like in the output under a class.
Emit(cls, token) == IF cls = "equal" THEN token ELSE Mark(cls, token)

\* Lines 59-74: both lists get the token of their side under the same class.
EmitBoth(cls, doc_token, html_token, lists) ==
    <<Append(lists[1], Emit(cls, doc_token)), Append(lists[2], Emit(cls, html_token))>>

\* One iteration of the loop of line 48 at index idx (0-based), on
\* lists = <<highlighted_doc, highlighted_html>>: the two lists after it.
HighlightStepBothSides(doc_toks, html_toks, idx, lists) ==
    IF idx >= Len(doc_toks)
    THEN <<Append(lists[1], Mark("missing", <<>>)),
           Append(lists[2], Mark("extra", html_toks[idx + 1]))>>
    ELSE IF idx >= Len(html_toks)
    THEN <<Append(lists[1], Mark("missing", doc_toks[idx + 1])),
           Append(lists[2], Mark("extra", <<>>))>>
    ELSE EmitBoth(TokenClass(doc_toks[idx + 1], html_toks[idx + 1]),
                  doc_toks[idx + 1], html_toks[idx + 1], lists)

HighlightStep(doc_toks, html_toks, idx, lists) ==
    IF idx >= Len(doc_toks)
    THEN <<lists[1], Append(lists[2], Mark("extra", html_toks[idx + 1]))>>
    ELSE IF idx >= Len(html_toks)
    THEN <<Append(lists[1], Mark("missing", doc_toks[idx + 1])), lists[2]>>
    ELSE EmitBoth(TokenClass(doc_toks[idx + 1], html_toks[idx + 1]),
                  doc_toks[idx + 1], html_toks[idx + 1], lists)

\* The loop of lines 48-74 from index idx on.
RECURSIVE HighlightLoop(_, _, _, _)
HighlightLoop(doc_toks, html_toks, idx, lists) ==
    IF idx >= Max(Len(doc_toks), Len(html_toks)) THEN lists
    ELSE HighlightLoop(doc_toks, html_toks, idx + 1,
                       HighlightStep(doc_toks, html_toks, idx, lists))

\* The returned pair of line 76.
HighlightResult(lists) == <<Join(Space, lists[1]), Join(Space, lists[2])>>

highlight_differences(doc_sentence, html_sentence) ==
    HighlightResult(HighlightLoop(Tokenize(doc_sentence), Tokenize(html_sentence),
                                  0, <<(<<>>), (<<>>)>>))

(***************************************************************************)
(* match_sentences_full                                                    *)
(***************************************************************************)

\* Lines 89-91: <<best_score, best_index>> after a candidate's score.
BetterLastWins(score, idx, best) == IF ScoreGe(score, best[1]) THEN <<score, idx>> ELSE best

Better(score, idx, best) == IF ScoreGt(score, best[1]) THEN <<score, idx>> ELSE best

\* Lines 86-91 for index idx (0-based): <<best_score, best_index>> after it.
ScanStepNoSkip(doc_sentence, html_sents, used, idx, best) ==
    Better(ratio(doc_sentence, html_sents[idx + 1]), idx, best)

ScanStep(doc_sentence, html_sents, used, idx, best) ==
    IF idx \in used THEN best
    ELSE Better(ratio(doc_sentence, html_sents[idx + 1]), idx, best)

\* Lines 83-84.
InitialBest == <<(<<0, 1>>), -1>>

\* Line 93.
AcceptsStrict(score, index, thr) == ScoreGt(score, thr) /\ index # -1

Accepts(score, index, thr) == ScoreGe(score, thr) /\ index # -1

\* Line 97, h the pair highlight_differences returned.
RowOf(h) == <<h[1], h[2], FALSE>>

\* Lines 96-97.
MatchedRow(doc_sentence, html_sentence) ==
    RowOf(highlight_differences(doc_sentence, html_sentence))

\* Line 99.
MissingRow(doc_sentence) == <<Mark("missing", doc_sentence), <<>>, TRUE>>

\* Line 103.
ExtraRowFlagged(html_sentence) == <<(<<>>), Mark("extra", html_sentence), TRUE>>

ExtraRow(html_sentence) == <<(<<>>), Mark("extra", html_sentence), FALSE>>

\* Lines 93-99 for one doc sentence with best = <<best_score, best_index>>:
\* <<the index consumed or -1, the row appended>>.
Decide(doc_sentence, html_sents, thr, best) ==
    IF Accepts(best[1], best[2], thr)
    THEN <<best[2], MatchedRow(doc_sentence, html_sents[best[2] + 1])>>
    ELSE <<-1, MissingRow(doc_sentence)>>

\* Lines 95 and 97, 99 on one call's st = <<used_html_indexes, pairs>>.
ApplyDecisionPrepend(st, decision) ==
    <<IF decision[1] # -1 THEN st[1] \cup {decision[1]} ELSE st[1],
      <<decision[2]>> \o st[2]>>

ApplyDecision(st, decision) ==
    <<IF decision[1] # -1 THEN st[1] \cup {decision[1]} ELSE st[1],
      Append(st[2], decision[2])>>

\* Lines 102-103 for index idx (0-based).
TailStep(html_sents, used, idx, rows) ==
    IF idx \notin used THEN Append(rows, ExtraRow(html_sents[idx + 1])) ELSE rows

\* The loop of lines 85-91 from index idx on.
RECURSIVE ScanLoop(_, _, _, _, _)
ScanLoop(doc_sentence, html_sents, used, idx, best) ==
    IF idx >= Len(html_sents) THEN best
    ELSE ScanLoop(doc_sentence, html_sents, used, idx + 1,
                  ScanStep(doc_sentence, html_sents, used, idx, best))

\* The loop of lines 82-99 from doc sentence number k (0-based) on, on
\* st = <<used_html_indexes, pairs>>.
RECURSIVE DocLoop(_, _, _, _, _)
DocLoop(doc_sents, html_sents, thr, k, st) ==
    IF k >= Len(doc_sents) THEN st
    ELSE DocLoop(doc_sents, html_sents, thr, k + 1,
                 ApplyDecision(st,
                     Decide(doc_sents[k + 1], html_sents, thr,
                            ScanLoop(doc_sents[k + 1], html_sents, st[1], 0, InitialBest))))

\* The loop of lines 101-103 from index idx on.
RECURSIVE TailLoop(_, _, _, _)
TailLoop(html_sents, used, idx, rows) ==
    IF idx >= Len(html_sents) THEN rows
    ELSE TailLoop(html_sents, used, idx + 1, TailStep(html_sents, used, idx, rows))

\* Lines 101-105 after the loop of line 82 left st = <<used_html_indexes, pairs>>.
Finish(html_sents, st) == TailLoop(html_sents, st[1], 0, st[2])

\* One call run from entry to return, alone.
match_sentences_full(doc_sents, html_sents, thr) ==
    Finish(html_sents, DocLoop(doc_sents, html_sents, thr, 0, <<{}, (<<>>)>>))

(***************************************************************************)
(* State                                                                   *)
(***************************************************************************)

VARIABLES
    calls,              \* the calls of match_sentences_full in progress or returned
    doc_sentences,      \* per call: its argument doc_sentences
    html_sentences,     \* per call: its argument html_sentences
    threshold,          \* per call: its argument threshold, a fraction
    pc,                 \* per call: "outer", "inner", "tail" or "done"
    doc_pos,            \* per call: number of doc sentences already decided
    scan_i,             \* per call: the index i of the loop it is in
    best,               \* per call: <<best_score, best_index>>
    used_html_indexes,  \* per call: its local set
    pairs,              \* per call: its local list, the value it returns
    chosen,             \* per call: history of best_index at line 93, -1 when none
                        \*   was accepted, one entry per decided doc sentence
    h_pc,               \* highlight_differences alone: "idle", "loop" or "done"
    doc_sent,           \* its argument doc_sent
    html_sent,          \* its argument html_sent
    doc_tokens,         \* line 41
    html_tokens,        \* line 42
    tok_i,              \* the index i of the loop of line 48
    highlighted_doc,    \* line 44, and what the loop appends
    highlighted_html,   \* line 45, and what the loop appends
    h_result            \* the returned pair, <<>> before the return

alignVars == <<calls, doc_sentences, html_sentences, threshold, pc, doc_pos, scan_i,
               best, used_html_indexes, pairs, chosen>>
diffVars == <<h_pc, doc_sent, html_sent, doc_tokens, html_tokens, tok_i,
              highlighted_doc, highlighted_html, h_result>>
vars == <<alignVars, diffVars>>

(***************************************************************************)
(* Inputs                                                                  *)
(***************************************************************************)

MaxDoc == 2
MaxHtml == 2
MaxWords == 2

SeqsUpTo(S, n) == UNION {[1..k -> S] : k \in 0..n}

\* Sentences of the bounded runs: the empty sentence and two sentences that
\* share one character out of two (ratio 1/2).
SentenceUniverse == {Text(""), Text("ab"), Text("ba")}

\* Thresholds as fractions: below the range, the lower end, the default of
\* line 78, a value some pair's ratio equals, and above the range.
DefaultThreshold == <<3, 10>>
Thresholds == {<<-1, 10>>, <<0, 1>>, DefaultThreshold, <<1, 2>>, <<11, 10>>}

ValidThreshold(thr) == thr[1] >= 0 /\ thr[1] <= thr[2]

\* The six scenarios of the specification's section 8, each <<Left, Right, T>>.
Scenario6Left == Text("Totally unrelated sentence one.")
Scenario6Right == Text("Completely different text two.")
Scenarios ==
    { <<(<<Text("The cat sat.")>>), (<<Text("The cat sat.")>>), DefaultThreshold>>,
      <<(<<Text("Revenue was 3.0 million.")>>), (<<Text("Revenue was 3.00 million.")>>),
        DefaultThreshold>>,
      <<(<<Text("Hello World")>>), (<<Text("hello world")>>), DefaultThreshold>>,
      <<(<<Text("A")>>), (<<>>), DefaultThreshold>>,
      <<(<<>>), (<<Text("B")>>), DefaultThreshold>>,
      <<(<<Scenario6Left>>), (<<Scenario6Right>>), DefaultThreshold>> }

\* A right sentence of 200 characters 'a', the length from which on difflib
\* keeps a character that occurs more than len(b) // 100 + 1 times out of
\* its index, and a left sentence that shares 100 of them after an 'x'.
PopularLeft == Text("x") \o [k \in 1..100 |-> 97]
PopularRight == [k \in 1..200 |-> 97]
PopularInput == <<(<<PopularLeft>>), (<<PopularRight>>), DefaultThreshold>>

AlignInputs ==
    (SeqsUpTo(SentenceUniverse, MaxDoc) \X SeqsUpTo(SentenceUniverse, MaxHtml) \X Thresholds)
    \cup Scenarios \cup {PopularInput}

\* Inputs of the concurrent runs, as index passes them at line 135: the
\* threshold is the default, and a list of sentences is one split_sentences
\* returns (no sentence is empty, every sentence but the last ends with a
\* period and every sentence but the first starts with a capital).
ConcurrentInputs ==
    { <<(<<Text("Ab."), Text("Ba.")>>), (<<Text("Ba."), Text("Ab.")>>), DefaultThreshold>>,
      <<(<<Text("Ab."), Text("Xy")>>), (<<Text("Ab."), Text("Cd.")>>), DefaultThreshold>>,
      <<(<<Text("Ba.")>>), (<<Text("Cd."), Text("Ba.")>>), DefaultThreshold>>,
      <<(<<>>), (<<Text("Ab.")>>), DefaultThreshold>> }

\* Words the sentences given to highlight_differences alone are made of: the
\* letter e with acute accent (U+00E9), its capital (U+00C9) with a period
\* (two tokens), and three spellings of ten.
Words == {<<233>>, <<201, 46>>, Text("1e1"), Text("1E1"), Text("10")}

DiffSentences == {Join(Space, w) : w \in SeqsUpTo(Words, MaxWords)}

(***************************************************************************)
(* Initial states                                                          *)
(***************************************************************************)

\* highlight_differences is not running on its own.
DiffIdle ==
    /\ h_pc = "idle"
    /\ doc_sent = <<>>
    /\ html_sent = <<>>
    /\ doc_tokens = <<>>
    /\ html_tokens = <<>>
    /\ tok_i = 0
    /\ highlighted_doc = <<>>
    /\ highlighted_html = <<>>
    /\ h_result = <<>>

\* The calls in ids have been entered with the arguments input[c] and have
\* run lines 79-80.
Entered(ids, input) ==
    /\ calls = ids
    /\ doc_sentences = [c \in ids |-> input[c][1]]
    /\ html_sentences = [c \in ids |-> input[c][2]]
    /\ threshold = [c \in ids |-> input[c][3]]
    /\ pc = [c \in ids |-> "outer"]
    /\ doc_pos = [c \in ids |-> 0]
    /\ scan_i = [c \in ids |-> 0]
    /\ best = [c \in ids |-> InitialBest]
    /\ used_html_indexes = [c \in ids |-> {}]
    /\ pairs = [c \in ids |-> <<>>]
    /\ chosen = [c \in ids |-> <<>>]

\* One call.
Init ==
    /\ \E input \in AlignInputs : Entered({1}, [c \in {1} |-> input])
    /\ DiffIdle

\* Two calls at once (two requests of the threaded server), on any two inputs.
InitConcurrent ==
    /\ \E in1 \in ConcurrentInputs, in2 \in ConcurrentInputs :
           Entered({1, 2}, [c \in {1, 2} |-> IF c = 1 THEN in1 ELSE in2])
    /\ DiffIdle

\* highlight_differences alone, after lines 41-47.
InitDiff ==
    /\ Entered({}, <<>>)
    /\ \E ds \in DiffSentences, hs \in DiffSentences :
        /\ doc_sent = ds
        /\ html_sent = hs
        /\ doc_tokens = Tokenize(ds)
        /\ html_tokens = Tokenize(hs)
    /\ h_pc = "loop"
    /\ tok_i = 0
    /\ highlighted_doc = <<>>
    /\ highlighted_html = <<>>
    /\ h_result = <<>>

(***************************************************************************)
(* Steps of match_sentences_full in call c                                 *)
(***************************************************************************)

\* used_html_indexes.add(best_index) of line 95, on the sets of all calls.
AddUsedShared(used_all, c, index) == [k \in DOMAIN used_all |-> used_all[k] \cup {index}]

AddUsed(used_all, c, index) == [used_all EXCEPT ![c] = @ \cup {index}]

\* Lines 82-84: the next doc sentence.
OuterNext(c) ==
    /\ pc[c] = "outer"
    /\ doc_pos[c] < Len(doc_sentences[c])
    /\ best' = [best EXCEPT ![c] = InitialBest]
    /\ scan_i' = [scan_i EXCEPT ![c] = 0]
    /\ pc' = [pc EXCEPT ![c] = "inner"]
    /\ UNCHANGED <<calls, doc_sentences, html_sentences, threshold, doc_pos,
                   used_html_indexes, pairs, chosen>>
    /\ UNCHANGED diffVars

\* Lines 85-91: one html sentence.
InnerStep(c) ==
    /\ pc[c] = "inner"
    /\ scan_i[c] < Len(html_sentences[c])
    /\ best' = [best EXCEPT ![c] =
                   ScanStep(doc_sentences[c][doc_pos[c] + 1], html_sentences[c],
                            used_html_indexes[c], scan_i[c], @)]
    /\ scan_i' = [scan_i EXCEPT ![c] = @ + 1]
    /\ UNCHANGED <<calls, doc_sentences, html_sentences, threshold, pc, doc_pos,
                   used_html_indexes, pairs, chosen>>
    /\ UNCHANGED diffVars

\* Lines 93-99: the row of the doc sentence.
DecideStep(c) ==
    /\ pc[c] = "inner"
    /\ scan_i[c] = Len(html_sentences[c])
    /\ \E decision \in {Decide(doc_sentences[c][doc_pos[c] + 1], html_sentences[c],
                               threshold[c], best[c])} :
        /\ used_html_indexes' =
              IF decision[1] # -1 THEN AddUsed(used_html_indexes, c, decision[1])
              ELSE used_html_indexes
        /\ pairs' = [pairs EXCEPT ![c] =
                        ApplyDecision(<<used_html_indexes[c], @>>, decision)[2]]
        /\ chosen' = [chosen EXCEPT ![c] = Append(@, decision[1])]
    /\ doc_pos' = [doc_pos EXCEPT ![c] = @ + 1]
    /\ pc' = [pc EXCEPT ![c] = "outer"]
    /\ UNCHANGED <<calls, doc_sentences, html_sentences, threshold, scan_i, best>>
    /\ UNCHANGED diffVars

\* Line 82 exhausted: on to the loop of line 101.
OuterDone(c) ==
    /\ pc[c] = "outer"
    /\ doc_pos[c] = Len(doc_sentences[c])
    /\ scan_i' = [scan_i EXCEPT ![c] = 0]
    /\ pc' = [pc EXCEPT ![c] = "tail"]
    /\ UNCHANGED <<calls, doc_sentences, html_sentences, threshold, doc_pos, best,
                   used_html_indexes, pairs, chosen>>
    /\ UNCHANGED diffVars

\* Lines 101-103: one html sentence.
TailStepAct(c) ==
    /\ pc[c] = "tail"
    /\ scan_i[c] < Len(html_sentences[c])
    /\ pairs' = [pairs EXCEPT ![c] =
                    TailStep(html_sentences[c], used_html_indexes[c], scan_i[c], @)]
    /\ scan_i' = [scan_i EXCEPT ![c] = @ + 1]
    /\ UNCHANGED <<calls, doc_sentences, html_sentences, threshold, pc, doc_pos, best,
                   used_html_indexes, chosen>>
    /\ UNCHANGED diffVars

\* Line 105.
Return(c) ==
    /\ pc[c] = "tail"
    /\ scan_i[c] = Len(html_sentences[c])
    /\ pc' = [pc EXCEPT ![c] = "done"]
    /\ UNCHANGED <<calls, doc_sentences, html_sentences, threshold, doc_pos, scan_i,
                   best, used_html_indexes, pairs, chosen>>
    /\ UNCHANGED diffVars

Next ==
    \/ \E c \in calls : OuterNext(c)
    \/ \E c \in calls : InnerStep(c)
    \/ \E c \in calls : DecideStep(c)
    \/ \E c \in calls : OuterDone(c)
    \/ \E c \in calls : TailStepAct(c)
    \/ \E c \in calls : Return(c)

(***************************************************************************)
(* Steps of highlight_differences alone                                    *)
(***************************************************************************)

\* Lines 48-74: one index.
HighlightIteration ==
    /\ h_pc = "loop"
    /\ tok_i < Max(Len(doc_tokens), Len(html_tokens))
    /\ \E lists \in {HighlightStep(doc_tokens, html_tokens, tok_i,
                                   <<highlighted_doc, highlighted_html>>)} :
        /\ highlighted_doc' = lists[1]
        /\ highlighted_html' = lists[2]
    /\ tok_i' = tok_i + 1
    /\ UNCHANGED <<h_pc, doc_sent, html_sent, doc_tokens, html_tokens, h_result>>
    /\ UNCHANGED alignVars

\* Line 76.
HighlightReturn ==
    /\ h_pc = "loop"
    /\ tok_i = Max(Len(doc_tokens), Len(html_tokens))
    /\ h_result' = HighlightResult(<<highlighted_doc, highlighted_html>>)
    /\ h_pc' = "done"
    /\ UNCHANGED <<doc_sent, html_sent, doc_tokens, html_tokens, tok_i,
                   highlighted_doc, highlighted_html>>
    /\ UNCHANGED alignVars

NextDiff == HighlightIteration \/ HighlightReturn

(***************************************************************************)
(* Specifications                                                          *)
(***************************************************************************)

Spec == Init /\ [][Next]_vars
SpecConcurrent == InitConcurrent /\ [][Next]_vars
SpecDiff == InitDiff /\ [][NextDiff]_vars

(***************************************************************************)
(* Properties of match_sentences_full                                      *)
(***************************************************************************)

Done(c) == pc[c] = "done"

\* The markup the specification's rows are written with.
MissingOpen == Text("<span class=\"missing\">")
ExtraOpen == Text("<span class=\"extra\">")
SpanEnd == Text("</span>")

\* The right indices of call c, 0-based as in the code.
RightIndices(c) == 0..(Len(html_sentences[c]) - 1)

\* The right indices no doc sentence of call c has consumed so far.
Unconsumed(c) == RightIndices(c) \ {chosen[c][k] : k \in DOMAIN chosen[c]}

\* The right indices consumed before doc sentence number k (1-based) was
\* decided, and the candidates left for it.
UsedBefore(c, k) == {chosen[c][m] : m \in 1..(k - 1)} \ {-1}
Candidates(c, k) == RightIndices(c) \ UsedBefore(c, k)

\* The similarity of doc sentence number k (1-based) and right index j.
ScoreOf(c, k, j) == ratio(doc_sentences[c][k], html_sentences[c][j + 1])

\* The n-th smallest element (n from 1) of a set of integers.
Nth(S, n) == CHOOSE x \in S : Cardinality({y \in S : y < x}) = n - 1

\* C1: a returned result has len(Left) + (number of right indices never
\* consumed) rows, and every right index is consumed by exactly one left
\* sentence or is unconsumed (and then has its Extra row), never both and
\* never by two left sentences.
C1_RowCountAndPartition ==
    \A c \in calls : Done(c) =>
        /\ Len(pairs[c]) = Len(doc_sentences[c]) + Cardinality(Unconsumed(c))
        /\ used_html_indexes[c] = RightIndices(c) \ Unconsumed(c)
        /\ \A j \in RightIndices(c) :
              Cardinality({k \in DOMAIN chosen[c] : chosen[c][k] = j})
                  + Cardinality({n \in 1..Cardinality(Unconsumed(c)) :
                                    Nth(Unconsumed(c), n) = j
                                    /\ pairs[c][Len(doc_sentences[c]) + n][2]
                                          = ExtraOpen
                                            \o html_sentences[c][j + 1]
                                            \o SpanEnd})
              = 1

\* A call has returned with one right sentence consumed, one left sentence
\* unmatched and one right sentence left over.
C1_Witness ==
    \E c \in calls :
        /\ Done(c)
        /\ Len(doc_sentences[c]) = 2
        /\ \E k \in DOMAIN chosen[c] : chosen[c][k] = -1
        /\ \E k \in DOMAIN chosen[c] : chosen[c][k] # -1
        /\ Unconsumed(c) # {}

\* C2: in a returned result row k, for k up to len(Left), is the row derived
\* from Left[k] (matched with the right sentence it consumed, or Missing), and
\* the rows after them are the Extra rows of the unconsumed right sentences in
\* increasing right index; before the tail loop no Extra row exists at all.
C2_RowOrder ==
    \A c \in calls :
        /\ pc[c] \in {"outer", "inner"} => Len(pairs[c]) = doc_pos[c]
        /\ Done(c) =>
            /\ \A k \in 1..Len(doc_sentences[c]) :
                  pairs[c][k] =
                      IF chosen[c][k] # -1
                      THEN MatchedRow(doc_sentences[c][k],
                                      html_sentences[c][chosen[c][k] + 1])
                      ELSE <<MissingOpen \o doc_sentences[c][k]
                             \o SpanEnd, <<>>, TRUE>>
            /\ \A n \in 1..(Len(pairs[c]) - Len(doc_sentences[c])) :
                  pairs[c][Len(doc_sentences[c]) + n] =
                      <<(<<>>), ExtraOpen
                                \o html_sentences[c][Nth(Unconsumed(c), n) + 1]
                                \o SpanEnd,
                        FALSE>>

\* A call has returned rows for two different left sentences, one matched and
\* one Missing, followed by an Extra row.
C2_Witness ==
    \E c \in calls :
        /\ Done(c)
        /\ Len(doc_sentences[c]) = 2
        /\ doc_sentences[c][1] # doc_sentences[c][2]
        /\ chosen[c][1] = -1
        /\ chosen[c][2] # -1
        /\ Len(pairs[c]) = 3

\* The best similarity of doc sentence number k over its candidates, which
\* are not empty.
BestScoreOf(c, k) ==
    LET scores == {ScoreOf(c, k, j) : j \in Candidates(c, k)}
    IN  CHOOSE x \in scores : \A y \in scores : ScoreGe(x, y)

\* Doc sentence number k of call c was matched.
Matched(c, k) == chosen[c][k] # -1

\* C3 as stated: for a threshold in [0, 1], a left sentence is matched
\* exactly when the best similarity over the right sentences not yet consumed
\* is at least the threshold.
C3_MatchedIffBestAtLeastThreshold ==
    \A c \in calls : \A k \in DOMAIN chosen[c] :
        ValidThreshold(threshold[c]) =>
            (Matched(c, k) <=>
                /\ Candidates(c, k) # {}
                /\ ScoreGe(BestScoreOf(c, k), threshold[c]))

\* C3 as the code has it: a left sentence is matched exactly when the best
\* similarity over the right sentences not yet consumed is at least the
\* threshold and greater than 0 (a score equal to a positive threshold
\* matches; a best score of 0 never does, whatever the threshold); a matched
\* row is not flagged, and otherwise the row is the left sentence marked
\* Missing with an empty right side, flagged, and no right index is consumed.
C3_MatchedIffBestPositiveAndAtLeastThreshold ==
    \A c \in calls :
        /\ used_html_indexes[c] = {chosen[c][k] : k \in DOMAIN chosen[c]} \ {-1}
        /\ \A k \in DOMAIN chosen[c] :
            /\ Matched(c, k) <=>
                  /\ Candidates(c, k) # {}
                  /\ ScoreGe(BestScoreOf(c, k), threshold[c])
                  /\ ScoreGt(BestScoreOf(c, k), <<0, 1>>)
            /\ Matched(c, k) => pairs[c][k][3] = FALSE
            /\ ~Matched(c, k) =>
                  pairs[c][k] = <<MissingOpen \o doc_sentences[c][k]
                                  \o SpanEnd, <<>>, TRUE>>

\* A left sentence was matched on a best score equal to a positive threshold,
\* and a zero-length left sentence was left unmatched on a best score of 0.
C3_Witness ==
    \E c \in calls : \E k \in DOMAIN chosen[c], m \in DOMAIN chosen[c] :
        /\ Matched(c, k)
        /\ threshold[c][1] > 0
        /\ BestScoreOf(c, k)[1] * threshold[c][2] = threshold[c][1] * BestScoreOf(c, k)[2]
        /\ ~Matched(c, m)
        /\ doc_sentences[c][m] = <<>>
        /\ Candidates(c, m) # {}

\* C4 as stated: a call with a threshold outside [0, 1] decides no row and
\* returns no result.
C4_InvalidThresholdRejected ==
    \A c \in calls :
        ~ValidThreshold(threshold[c]) => chosen[c] = <<>> /\ ~Done(c)

\* C5: a matched left sentence consumes a right sentence that no earlier left
\* sentence consumed, whose similarity is the maximum over the right sentences
\* not yet consumed, and the lowest index among those at the maximum; the k-th
\* decision is the one for Left[k].
C5_GreedyBestLowestIndex ==
    \A c \in calls :
        /\ Len(chosen[c]) = doc_pos[c]
        /\ \A k \in DOMAIN chosen[c] :
            Matched(c, k) =>
                /\ chosen[c][k] \in Candidates(c, k)
                /\ \A j \in Candidates(c, k) :
                      /\ ScoreGe(ScoreOf(c, k, chosen[c][k]), ScoreOf(c, k, j))
                      /\ j < chosen[c][k] =>
                            ScoreGt(ScoreOf(c, k, chosen[c][k]), ScoreOf(c, k, j))
                /\ pairs[c][k] = MatchedRow(doc_sentences[c][k],
                                            html_sentences[c][chosen[c][k] + 1])

\* One left sentence chose the lower of two right sentences tied at the
\* maximum, and another was matched although a right sentence consumed before
\* scores at least as high for it.
C5_Witness ==
    \E c \in calls : \E k \in DOMAIN chosen[c], m \in DOMAIN chosen[c] :
        /\ Matched(c, k)
        /\ \E j \in Candidates(c, k) :
              /\ j > chosen[c][k]
              /\ ScoreGe(ScoreOf(c, k, j), ScoreOf(c, k, chosen[c][k]))
        /\ Matched(c, m)
        /\ \E j \in UsedBefore(c, m) :
              ScoreGe(ScoreOf(c, m, j), ScoreOf(c, m, chosen[c][m]))

\* Call c was given scenario 6.
IsScenario6(c) ==
    /\ doc_sentences[c] = <<Scenario6Left>>
    /\ html_sentences[c] = <<Scenario6Right>>
    /\ threshold[c] = DefaultThreshold

\* C6 as stated: scenario 6 returns a Missing row for the left sentence and
\* then an Extra row for the right sentence.
C6_Scenario6MissingAndExtra ==
    \A c \in calls : IsScenario6(c) /\ Done(c) =>
        pairs[c] = << <<MissingOpen \o Scenario6Left \o SpanEnd,
                        <<>>, TRUE>>,
                      <<(<<>>),
                        ExtraOpen \o Scenario6Right \o SpanEnd,
                        FALSE>> >>

\* The two sides of the matched row of scenario 6.
Scenario6LeftShown ==
    Text("<span class=\"diff\">Totally</span> <span class=\"diff\">unrelated</span> <span class=\"diff\">sentence</span> <span class=\"diff\">one</span> .")
Scenario6RightShown ==
    Text("<span class=\"diff\">Completely</span> <span class=\"diff\">different</span> <span class=\"diff\">text</span> <span class=\"diff\">two</span> .")

\* C6 as the code has it: in scenario 6 the similarity is 2 * 13 / 61, which
\* is not below 3/10, and the result is the one matched row.
C6_Scenario6Matched ==
    \A c \in calls : IsScenario6(c) =>
        /\ \A k \in DOMAIN chosen[c] : ScoreOf(c, k, 0) = <<26, 61>>
        /\ Done(c) =>
              pairs[c] = << <<Scenario6LeftShown,
                              Scenario6RightShown,
                              FALSE>> >>

\* The call of scenario 6 has returned.
C6_Witness == \E c \in calls : IsScenario6(c) /\ Done(c)

\* C8: with no left sentence the result is one Extra row per right sentence,
\* in order, not flagged; with no right sentence it is one Missing row per
\* left sentence, in order, flagged; with neither it is empty.
C8_DegenerateInputs ==
    \A c \in calls : Done(c) =>
        /\ doc_sentences[c] = <<>> =>
              pairs[c] = [k \in 1..Len(html_sentences[c]) |->
                             <<(<<>>), ExtraOpen
                                       \o html_sentences[c][k] \o SpanEnd,
                               FALSE>>]
        /\ html_sentences[c] = <<>> =>
              pairs[c] = [k \in 1..Len(doc_sentences[c]) |->
                             <<MissingOpen \o doc_sentences[c][k]
                               \o SpanEnd, <<>>, TRUE>>]
        /\ doc_sentences[c] = <<>> /\ html_sentences[c] = <<>> => pairs[c] = <<>>

\* A call with no left sentence and two different right sentences has returned.
C8_Witness ==
    \E c \in calls :
        /\ Done(c)
        /\ doc_sentences[c] = <<>>
        /\ Len(html_sentences[c]) = 2
        /\ html_sentences[c][1] # html_sentences[c][2]

(***************************************************************************)
(* Properties of concurrent calls                                          *)
(***************************************************************************)

\* C9: whatever the interleaving, a call returns what match_sentences_full
\* returns for its arguments when run alone, its set of consumed indices at
\* any moment holds only indices it consumed itself, and two calls on the
\* same arguments return the same result.
C9_Reentrant ==
    /\ \A c \in calls :
          /\ used_html_indexes[c] = {chosen[c][k] : k \in DOMAIN chosen[c]} \ {-1}
          /\ Done(c) =>
                pairs[c] = match_sentences_full(doc_sentences[c], html_sentences[c],
                                                threshold[c])
    /\ \A c1 \in calls, c2 \in calls :
          /\ Done(c1) /\ Done(c2)
          /\ doc_sentences[c1] = doc_sentences[c2]
          /\ html_sentences[c1] = html_sentences[c2]
          /\ threshold[c1] = threshold[c2]
          => pairs[c1] = pairs[c2]

\* Two calls on different arguments have both returned, each having consumed
\* a right index the other did not.
C9_Witness ==
    \E c1 \in calls, c2 \in calls :
        /\ c1 # c2
        /\ Done(c1) /\ Done(c2)
        /\ doc_sentences[c1] # doc_sentences[c2]
        /\ html_sentences[c1] # html_sentences[c2]
        /\ used_html_indexes[c1] \ used_html_indexes[c2] # {}
        /\ used_html_indexes[c2] \ used_html_indexes[c1] # {}

(***************************************************************************)
(* Properties of highlight_differences                                     *)
(***************************************************************************)

\* The class the rules give two tokens, each rule stated with the failure of
\* the rules before it.
RuleClass(a, b) ==
    CASE a = b -> "equal"
      [] a # b /\ Lower(a) = Lower(b) -> "case-diff"
      [] a # b /\ Lower(a) # Lower(b)
         /\ normalize_number(a) # None /\ normalize_number(b) # None
         /\ NumbersEqual(normalize_number(a), normalize_number(b)) -> "decimal-diff"
      [] OTHER -> "diff"

\* A token as the output shows it under a class.
Shown(cls, token) ==
    IF cls = "equal" THEN token
    ELSE SpanOpen \o ClassText[cls] \o SpanQuote \o token \o SpanEnd

\* The positions (0-based) the loop has done at which both sides have a token.
SharedDone == 0..(Min(tok_i, Min(Len(doc_tokens), Len(html_tokens))) - 1)

\* C7: at every position where both sides have a token, both sides show their
\* token under one and the same class, the one of the first rule that
\* applies: equal, case-diff, decimal-diff, diff.
C7_ClassByFirstRule ==
    h_pc # "idle" =>
        \A k \in SharedDone :
            \E cls \in {RuleClass(doc_tokens[k + 1], html_tokens[k + 1])} :
                /\ highlighted_doc[k + 1] = Shown(cls, doc_tokens[k + 1])
                /\ highlighted_html[k + 1] = Shown(cls, html_tokens[k + 1])

\* The loop has classified a pair equal only under case-folding whose tokens
\* also parse to the same number, and a pair of which one token is no number.
C7_Witness ==
    /\ h_pc = "done"
    /\ \E k \in SharedDone :
          /\ doc_tokens[k + 1] # html_tokens[k + 1]
          /\ Lower(doc_tokens[k + 1]) = Lower(html_tokens[k + 1])
          /\ normalize_number(doc_tokens[k + 1]) # None
          /\ NumbersEqual(normalize_number(doc_tokens[k + 1]),
                          normalize_number(html_tokens[k + 1]))
    /\ \E k \in SharedDone :
          /\ normalize_number(doc_tokens[k + 1]) # None
          /\ normalize_number(html_tokens[k + 1]) = None

\* C10: the loop covers the positions 0 .. max(len(A), len(B)) - 1 in order;
\* the left list gets one entry per token of A and the right list one per
\* token of B, in order; a position past the end of B shows A's token as
\* missing on the left only and one past the end of A shows B's token as
\* extra on the right only, and no other position is shown so; hence no
\* result has both a missing and an extra token.
C10_PositionalCoverage ==
    h_pc # "idle" =>
        /\ tok_i <= Max(Len(doc_tokens), Len(html_tokens))
        /\ h_pc = "done" => tok_i = Max(Len(doc_tokens), Len(html_tokens))
        /\ Len(highlighted_doc) = Min(tok_i, Len(doc_tokens))
        /\ Len(highlighted_html) = Min(tok_i, Len(html_tokens))
        /\ \A k \in DOMAIN highlighted_doc :
              /\ \E cls \in {"equal", "case-diff", "decimal-diff", "diff", "missing"} :
                    highlighted_doc[k] = Shown(cls, doc_tokens[k])
              /\ k > Len(html_tokens) <=> highlighted_doc[k] = Shown("missing", doc_tokens[k])
        /\ \A k \in DOMAIN highlighted_html :
              /\ \E cls \in {"equal", "case-diff", "decimal-diff", "diff", "extra"} :
                    highlighted_html[k] = Shown(cls, html_tokens[k])
              /\ k > Len(doc_tokens) <=> highlighted_html[k] = Shown("extra", html_tokens[k])
        /\ ~ /\ \E k \in DOMAIN highlighted_doc :
                   highlighted_doc[k] = Shown("missing", doc_tokens[k])
             /\ \E k \in DOMAIN highlighted_html :
                   highlighted_html[k] = Shown("extra", html_tokens[k])
        /\ h_pc = "done" =>
              h_result = <<Join(Space, highlighted_doc),
                           Join(Space, highlighted_html)>>

\* The call has returned for a left sentence with more tokens than the right
\* one, which has some.
C10_Witness ==
    /\ h_pc = "done"
    /\ Len(html_tokens) >= 1
    /\ Len(doc_tokens) > Len(html_tokens)
    /\ highlighted_doc[Len(doc_tokens)] = Shown("missing", doc_tokens[Len(doc_tokens)])

====
